---- MODULE Spec2Model ----
(***************************************************************************)
(* Pilot Skills Trainer: the training page (sessions, module runs, the     *)
(* adaptive difficulty controller), the trial life cycle of the tracking   *)
(* modules A and B and of the spatial module D, the auditory go/no-go      *)
(* trial of modules C and F, and the ratio-based cost metrics.             *)
(*                                                                         *)
(* Units.  Difficulty is held in hundredths (0.3 is 30, the step 0.05 is   *)
(* 5), RMSE in thousandths, an accuracy as the fraction num/den, d-prime   *)
(* in thousandths, and time in milliseconds.  All comparisons of the code  *)
(* are cross-multiplied so that they stay exact on integers.               *)
(*                                                                         *)
(* React.  A render is taken to follow every state update at once, so the  *)
(* props and handlers of the latest render always reflect the current      *)
(* state.  A callback that outlives its render (a requestAnimationFrame    *)
(* chain, a setTimeout, a listener registered by useEffect(..., []), the   *)
(* continuation of an await) keeps the values of the render that created   *)
(* it: these are carried in the records named cap.  An awaited IndexedDB   *)
(* call resolves at an arbitrary later step.                               *)
(***************************************************************************)
EXTENDS Integers, Sequences, FiniteSets, TLC

\* ------------------------------------------------------------- bounds
MaxTrials == 2          \* trials started over one behaviour
MaxRuns == 2            \* module runs started over one behaviour
MaxTasks == 2
MaxAudTrials == 1
AudDurationMs == 2500
FrameMs == 16           \* stopTrial/endTrial continuations in flight

\* ------------------------------------------------- program constants
InitialDifficulty == 30        \* useState(0.3)
DifficultyStep == 5            \* +/- 0.05
MinDifficulty == 10            \* Math.max(0.1, ...)
MaxDifficulty == 100           \* Math.min(1.0, ...)
UpperBandPct == 85             \* accuracy > 0.85
LowerBandPct == 70             \* accuracy < 0.70
TasksPerTrial == 15            \* Module D: useState(15)

Min(a, b) == IF a < b THEN a ELSE b
Max(a, b) == IF a > b THEN a ELSE b

\* ------------------------------------------------------------ state
VARIABLES
  \* TrainingPage
  activeSession,        \* BOOLEAN: activeSession !== null
  activeModuleRun,      \* NoRun or [id, moduleId, trials]
  currentDifficulty,    \* hundredths
  \* the mounted module component (A, B or D)
  mountId,              \* 0 when no module is mounted
  mountCap,             \* the page values seen by the module's first render
  trialState,
  animationFrameId,     \* 0 is null
  loops,                \* pending requestAnimationFrame chains
  curTrial,             \* the trial the mounted module is running
  dIndex,               \* Module D currentTaskIndex
  dAnswered,            \* Module D selectedAnswer !== null
  dResp,                \* Module D responses.current, as [n, correct, indices]
  dTimers,              \* Module D pending setTimeout callbacks
  \* asynchronous continuations
  tasks,
  \* history
  trialNo, runNo, stops, invoked, ctl,
  \* an auditory module component (Module C, or Module F in its audio
  \* baseline): its state and refs as one record
  aud,
  \* the cost reducers: their last input and result
  cost,
  \* a target generator object: its fields and its last returned value
  gen,
  \* the metrics reducers: their last input and result
  red,
  \* the spatial task generator: the last task it returned
  task,
  \* a tracking component: its refs, its clock and the samples it recorded
  trk,
  \* a Module E or Module F component: its baselines and composite trials
  mt,
  \* the stimulus sequence generator: its last arguments and result
  stimSeq,
  \* a Module G component: its refs, timers and recorded responses
  mg

pageVars == <<activeSession, activeModuleRun, currentDifficulty>>
modVars == <<mountId, mountCap, trialState, animationFrameId, loops, curTrial,
             dIndex, dAnswered, dResp, dTimers>>
histVars == <<trialNo, runNo, stops, invoked, ctl>>
restVars == <<gen, red, task, trk, mt, stimSeq, mg>>
auxVars == <<aud, cost, restVars>>
vars == <<pageVars, modVars, tasks, histVars, auxVars>>

\* ------------------------------------------------------ input sets
\* RMSE values (thousandths) a tracking reducer can return: one below the
\* threshold at difficulties up to 0.45 only, and one far above every
\* threshold (10000.0, the largest the 32-bit products of the comparison
\* leave room for).
RmseInputs == {200, 10000000}
\* metrics records handed to the controller on its own (SpecCtl); for an
\* attention trial accNum / accDen is its hit rate
CtlTrials ==
  [no : {0}, kind : {"tracking"}, rmse : {0, 140, 200, 300, 10000000},
   accNum : {0}, accDen : {1}]
  \cup [no : {0}, kind : {"spatial"}, rmse : {0},
        accNum : {-500, 0, 69, 70, 71, 84, 85, 86, 100, 1000000}, accDen : {100}]
  \cup [no : {0}, kind : {"attention"}, rmse : {0},
        accNum : {0, 78, 100}, accDen : {100}]

\* ------------------------------------------------ difficulty controller
\* success = rmse < 0.3 / (1 + currentDifficulty)
TrackingSuccess(cd, rmse) == rmse * (100 + cd) < 30000
\* success = accuracy > 0.85 ; struggling = accuracy < 0.70
SpatialSuccess(num, den) == num * 100 > UpperBandPct * den
SpatialStruggling(num, den) == num * 100 < LowerBandPct * den

\* mutants of adjustDifficulty: the lower clamp dropped; the success band
\* starting at 0.75
AdjustDifficulty_NoFloor(cd, cur, trial) ==
  IF trial.kind = "tracking"
  THEN IF TrackingSuccess(cd, trial.rmse)
       THEN Min(MaxDifficulty, cd + DifficultyStep)
       ELSE cd - DifficultyStep
  ELSE IF trial.kind = "spatial"
  THEN IF SpatialSuccess(trial.accNum, trial.accDen)
       THEN Min(MaxDifficulty, cd + DifficultyStep)
       ELSE IF SpatialStruggling(trial.accNum, trial.accDen)
            THEN Max(MinDifficulty, cd - DifficultyStep)
            ELSE cd
  ELSE cur
AdjustDifficulty_Band75(cd, cur, trial) ==
  IF trial.kind = "tracking"
  THEN IF TrackingSuccess(cd, trial.rmse)
       THEN Min(MaxDifficulty, cd + DifficultyStep)
       ELSE Max(MinDifficulty, cd - DifficultyStep)
  ELSE IF trial.kind = "spatial"
  THEN IF trial.accNum * 100 > 75 * trial.accDen
       THEN Min(MaxDifficulty, cd + DifficultyStep)
       ELSE IF SpatialStruggling(trial.accNum, trial.accDen)
            THEN Max(MinDifficulty, cd - DifficultyStep)
            ELSE cd
  ELSE cur

\* adjustDifficulty(trial), run in a closure whose currentDifficulty is cd
\* while the page state holds cur: the value of the state afterwards.
\* (Modules other than tracking and spatial return without a set.)
AdjustDifficulty(cd, cur, trial) ==
  IF trial.kind = "tracking"
  THEN IF TrackingSuccess(cd, trial.rmse)
       THEN Min(MaxDifficulty, cd + DifficultyStep)
       ELSE Max(MinDifficulty, cd - DifficultyStep)
  ELSE IF trial.kind = "spatial"
  THEN IF SpatialSuccess(trial.accNum, trial.accDen)
       THEN Min(MaxDifficulty, cd + DifficultyStep)
       ELSE IF SpatialStruggling(trial.accNum, trial.accDen)
            THEN Max(MinDifficulty, cd - DifficultyStep)
            ELSE cd
  ELSE cur

\* ---------------------------------------------------------- records
NoRun == [id |-> 0, moduleId |-> "none", trials |-> <<>>]
NoCap == [cd |-> 0, run |-> NoRun, ses |-> FALSE]
NoTrial == [no |-> 0, kind |-> "none", rmse |-> 0, accNum |-> 0, accDen |-> 1]
NoCtl == [n |-> 0, trial |-> NoTrial, before |-> 0, read |-> 0, after |-> 0]
NoResp == [n |-> 0, correct |-> 0, indices |-> <<>>]

\* the values a handler of the latest render closes over
Cap == [cd |-> currentDifficulty, run |-> activeModuleRun, ses |-> activeSession]
mounted == activeModuleRun.moduleId # "none"
moduleId == activeModuleRun.moduleId
IsCurrent(m) == mounted /\ m = mountId

\* ------------------------------------------- auditory trials: functions
\* Times are in ms. A Response is [stim, responded, rt]: stim is the index
\* of the stimulus it was recorded for, rt = -1 stands for null.

\* the values (Math.random() - 0.5) * jitterRange takes in the model
Jitters == {-150, 0, 149}

\* generateStimulusSequence(config, durationMs): the timestamps of every
\* sequence it can return
RECURSIVE GenerateFrom(_, _, _, _)
GenerateFrom(sequence, currentTime, baseISI, durationMs) ==
  IF currentTime < durationMs
  THEN UNION {GenerateFrom(Append(sequence, currentTime),
                           currentTime + baseISI + jitter, baseISI, durationMs) :
              jitter \in Jitters}
  ELSE {sequence}
\* mutant: the schedule starts with the trial
GenerateStimulusSequence_FromZero(d, durationMs) ==
  GenerateFrom(<<>>, 0, 1500 - 8 * d, durationMs)
GenerateStimulusSequence(d, durationMs) ==
  GenerateFrom(<<>>, 500, 1500 - 8 * d, durationMs)

\* mutant of getResponseWindow: the window narrows by 600 ms per unit
GetResponseWindow_600(d) == [min |-> 100, max |-> 1200 - 6 * d]

\* getResponseWindow(difficulty), used by Module C
GetResponseWindow(d) == [min |-> 100, max |-> 1200 - 4 * d]

\* the window Module F builds inline in startBaselineAudio / startTripleTask
InlineResponseWindow(d) == [min |-> 100, max |-> 1200 - 6 * d]

\* mutant of the window test of handleResponse: no upper limit
InWindow_NoMax(reactionTime, window) == reactionTime >= window.min

\* handleResponse (Module C): the response is inside the window
InWindow(reactionTime, window) ==
  reactionTime >= window.min /\ reactionTime <= window.max

\* handleAuditoryResponse (Module F): the response is outside the window
OutsideWindow(reactionTime, window) ==
  reactionTime < window.min \/ reactionTime > window.max

NoResponse(stim) == [stim |-> stim, responded |-> FALSE, rt |-> -1]
ValidResponse(stim, rt) == [stim |-> stim, responded |-> TRUE, rt |-> rt]

\* the component as mounted, before any trial
AudIdle(m, d) ==
  [module |-> m, difficulty |-> d, now |-> 0, trialNo |-> 0,
   trialState |-> "idle", trialStartTime |-> 0,
   stimulusSequence |-> <<>>, responses |-> <<>>,
   currentStimulusIndex |-> 0, currentStimulusStart |-> 0,
   previousStimulusStart |-> 0,
   responseWindow |-> IF m = "C" THEN [min |-> 100, max |-> 1000]
                                 ELSE [min |-> 100, max |-> 1200],
   hasResponded |-> FALSE, isTrialRunning |-> FALSE,
   timers |-> {}, saves |-> 0,
   reducerCalls |-> 0, reducerInput |-> <<>>, reducerIndex |-> 0,
   notified |-> 0, lastKey |-> -1]

NoCost == [fn |-> "none"]
NoGen == [kind |-> "none"]
NoRed == [fn |-> "none"]
NoTask == [variant |-> "none"]
NoTrk == [module |-> "none", samples |-> <<>>]
NoMt == [module |-> "none"]
NoStim == [fn |-> "none"]
NoMg == [trialState |-> "unmounted"]

\* state of history and of the parts a specification does not use
InitHist ==
  /\ trialNo = 0 /\ runNo = 0
  /\ stops = [t \in 1..MaxTrials |-> 0]
  /\ invoked = [t \in 1..MaxTrials |-> 0]
  /\ ctl = NoCtl
InitRest ==
  /\ gen = NoGen
  /\ red = NoRed
  /\ task = NoTask
  /\ trk = NoTrk
  /\ mt = NoMt
  /\ stimSeq = NoStim /\ mg = NoMg
InitAux ==
  /\ aud = AudIdle("C", InitialDifficulty)
  /\ cost = NoCost
  /\ InitRest
InitModule ==
  /\ mountId = 0 /\ mountCap = NoCap /\ trialState = "idle"
  /\ animationFrameId = 0 /\ loops = {} /\ curTrial = 0
  /\ dIndex = 0 /\ dAnswered = FALSE /\ dResp = NoResp /\ dTimers = {}
InitPage ==
  /\ activeSession = FALSE /\ activeModuleRun = NoRun
  /\ currentDifficulty = InitialDifficulty
  /\ tasks = <<>>

\* ------------------------------------------- the controller on its own
\* a sequence of completed trials, each handed to adjustDifficulty by a
\* handler of the latest render
CtlStep ==
  \E trial \in CtlTrials :
    /\ currentDifficulty' = AdjustDifficulty(currentDifficulty, currentDifficulty, trial)
    /\ ctl' = [n |-> 1, trial |-> trial,
               before |-> currentDifficulty, read |-> currentDifficulty,
               after |-> currentDifficulty']
    /\ UNCHANGED <<auxVars, activeSession, activeModuleRun, modVars, tasks,
                   trialNo, runNo, stops, invoked>>

InitCtl == InitPage /\ InitModule /\ InitHist /\ InitAux
NextCtl == CtlStep
SpecCtl == InitCtl /\ [][NextCtl]_vars

\* ------------------------------------------------------- training page

\* What a change of activeModuleRun does to the module component: the page
\* renders <ModuleX/> only while activeModuleRun.moduleId = X, so a change
\* of moduleId unmounts the old component (the cleanup of A and B cancels
\* the frame held in animationFrameId) and mounts a fresh one, whose first
\* render sees the new page values.
MountFor(run, cd, ses) ==
  IF run.moduleId = moduleId
  THEN UNCHANGED modVars
  ELSE /\ loops' = IF moduleId \in {"A", "B"} /\ animationFrameId # 0
                   THEN {l \in loops : ~(l.mount = mountId /\ l.id = animationFrameId)}
                   ELSE loops
       /\ mountId' = IF run.moduleId # "none" THEN mountId + 1 ELSE mountId
       /\ mountCap' = IF run.moduleId # "none"
                      THEN [cd |-> cd, run |-> run, ses |-> ses] ELSE NoCap
       /\ trialState' = "idle" /\ animationFrameId' = 0 /\ curTrial' = 0
       /\ dIndex' = 0 /\ dAnswered' = FALSE /\ dResp' = NoResp
       /\ UNCHANGED dTimers

\* mutant of startModuleX: the difficulty is reset for the new run
StartModule_Reset(m) ==
  /\ activeModuleRun = NoRun
  /\ runNo < MaxRuns
  /\ runNo' = runNo + 1
  /\ activeSession' = TRUE
  /\ activeModuleRun' = [id |-> runNo + 1, moduleId |-> m, trials |-> <<>>]
  /\ currentDifficulty' = InitialDifficulty
  /\ MountFor(activeModuleRun', currentDifficulty', TRUE)
  /\ UNCHANGED <<auxVars, tasks, trialNo, stops, invoked, ctl>>

\* startModuleA .. startModuleE: the buttons are rendered while no module
\* run is active
StartModule(m) ==
  /\ activeModuleRun = NoRun
  /\ runNo < MaxRuns
  /\ runNo' = runNo + 1
  /\ activeSession' = TRUE
  /\ activeModuleRun' = [id |-> runNo + 1, moduleId |-> m, trials |-> <<>>]
  /\ UNCHANGED currentDifficulty
  /\ MountFor(activeModuleRun', currentDifficulty, TRUE)
  /\ UNCHANGED <<auxVars, tasks, trialNo, stops, invoked, ctl>>

\* endSession
EndSession ==
  /\ activeSession
  /\ activeSession' = FALSE
  /\ activeModuleRun' = NoRun
  /\ UNCHANGED currentDifficulty
  /\ MountFor(NoRun, currentDifficulty, FALSE)
  /\ UNCHANGED <<auxVars, tasks, histVars>>

\* ---------------------------------------------- modules A and B: trials
\* cancelAnimationFrame(animationFrameId.current) on the instance inst,
\* after the frame of loop `fired` (if any) has already run
CancelFrame(inst, rest) ==
  IF IsCurrent(inst)
  THEN /\ loops' = IF animationFrameId # 0
                   THEN {l \in rest : ~(l.mount = inst /\ l.id = animationFrameId)}
                   ELSE rest
       /\ animationFrameId' = 0
  ELSE /\ loops' = rest
       /\ UNCHANGED animationFrameId

\* the part of stopTrial / endTrial up to `await createTrial(trial)`
BeginSave(trial, cap, inst) ==
  /\ Len(tasks) < MaxTasks
  /\ tasks' = Append(tasks, [stage |-> "saving", trial |-> trial, cap |-> cap,
                             mount |-> inst, updated |-> NoRun])
  /\ stops' = [stops EXCEPT ![trial.no] = @ + 1]

TrackingTrial(no, rmse) ==
  [no |-> no, kind |-> "tracking", rmse |-> rmse, accNum |-> 0, accDen |-> 1]

\* Module A startTrial (button, disabled while trialState = 'running'):
\* the first gameLoop() call runs inside it and requests the next frame
StartTrialA ==
  /\ mounted /\ moduleId = "A"
  /\ trialState # "running"
  /\ trialNo < MaxTrials
  /\ trialNo' = trialNo + 1
  /\ curTrial' = trialNo + 1
  /\ trialState' = "running"
  /\ animationFrameId' = trialNo + 1
  /\ loops' = loops \cup {[id |-> trialNo + 1, trial |-> trialNo + 1,
                           mount |-> mountId, cap |-> Cap]}
  /\ UNCHANGED <<auxVars, pageVars, mountId, mountCap, dIndex, dAnswered, dResp, dTimers,
                 tasks, runNo, stops, invoked, ctl>>

\* Module B startTrial: shows the click-to-start state
StartTrialB ==
  /\ mounted /\ moduleId = "B"
  /\ trialState # "running"
  /\ trialState' = "ready"
  /\ UNCHANGED <<auxVars, pageVars, mountId, mountCap, animationFrameId, loops, curTrial,
                 dIndex, dAnswered, dResp, dTimers, tasks, histVars>>

\* Module B handleCanvasClick -> beginTrialAfterClick -> gameLoop: the
\* listener is registered by useEffect(..., []), so it and the gameLoop it
\* starts are those of the component's first render
CanvasClickB ==
  /\ mounted /\ moduleId = "B"
  /\ trialState = "ready"
  /\ trialNo < MaxTrials
  /\ trialNo' = trialNo + 1
  /\ curTrial' = trialNo + 1
  /\ trialState' = "running"
  /\ animationFrameId' = trialNo + 1
  /\ loops' = loops \cup {[id |-> trialNo + 1, trial |-> trialNo + 1,
                           mount |-> mountId, cap |-> mountCap]}
  /\ UNCHANGED <<auxVars, pageVars, mountId, mountCap, dIndex, dAnswered, dResp, dTimers,
                 tasks, runNo, stops, invoked, ctl>>

\* gameLoop before the trial duration has elapsed: requests another frame
\* and stores its id
GameLoopTick(l) ==
  /\ l \in loops
  /\ IsCurrent(l.mount)
  /\ animationFrameId' = l.id
  /\ UNCHANGED <<auxVars, pageVars, mountId, mountCap, trialState, loops, curTrial,
                 dIndex, dAnswered, dResp, dTimers, tasks, histVars>>

\* gameLoop once elapsed >= trialDuration: stopTrial() of the loop's render
TimedEnd(l) ==
  /\ l \in loops
  /\ \E rmse \in RmseInputs : BeginSave(TrackingTrial(l.trial, rmse), l.cap, l.mount)
  /\ CancelFrame(l.mount, loops \ {l})
  /\ UNCHANGED <<auxVars, pageVars, mountId, mountCap, trialState, curTrial,
                 dIndex, dAnswered, dResp, dTimers, trialNo, runNo, invoked, ctl>>

\* the Stop Trial button (enabled while trialState = 'running'): stopTrial()
\* of the latest render
ManualStop ==
  /\ mounted /\ moduleId \in {"A", "B"}
  /\ trialState = "running"
  /\ \E rmse \in RmseInputs : BeginSave(TrackingTrial(curTrial, rmse), Cap, mountId)
  /\ CancelFrame(mountId, loops)
  /\ UNCHANGED <<auxVars, pageVars, mountId, mountCap, trialState, curTrial,
                 dIndex, dAnswered, dResp, dTimers, trialNo, runNo, invoked, ctl>>

\* --------------------------------------------------- module D: trials
SpatialTrial(no, resp) ==
  [no |-> no, kind |-> "spatial", rmse |-> 0,
   accNum |-> resp.correct, accDen |-> IF resp.n = 0 THEN 1 ELSE resp.n]

\* startTrial (button, disabled while trialState = 'running')
StartTrialD ==
  /\ mounted /\ moduleId = "D"
  /\ trialState # "running"
  /\ trialNo < MaxTrials
  /\ trialNo' = trialNo + 1
  /\ curTrial' = trialNo + 1
  /\ dResp' = NoResp /\ dIndex' = 0 /\ dAnswered' = FALSE
  /\ trialState' = "running"
  /\ UNCHANGED <<auxVars, pageVars, mountId, mountCap, animationFrameId, loops, dTimers,
                 tasks, runNo, stops, invoked, ctl>>

\* mutant of handleAnswerSelect: a selected answer does not block the next
AnswerSelect_NoGuard(isCorrect) ==
  /\ mounted /\ moduleId = "D"
  /\ trialState = "running"
  /\ dAnswered' = TRUE
  /\ dResp' = [n |-> dResp.n + 1,
               correct |-> dResp.correct + (IF isCorrect THEN 1 ELSE 0),
               indices |-> Append(dResp.indices, dIndex)]
  /\ dTimers' = dTimers \cup {[next |-> dIndex + 1, trial |-> curTrial, resp |-> dResp',
                               mount |-> mountId, cap |-> Cap]}
  /\ UNCHANGED <<auxVars, pageVars, mountId, mountCap, trialState, animationFrameId, loops,
                 curTrial, dIndex, tasks, histVars>>

\* handleAnswerSelect: records the response and arms the 1 s timer, whose
\* callback is the one of this render (responses.current cannot change
\* before it fires, so the timer record carries its value)
AnswerSelect(isCorrect) ==
  /\ mounted /\ moduleId = "D"
  /\ trialState = "running"
  /\ ~dAnswered
  /\ dAnswered' = TRUE
  /\ dResp' = [n |-> dResp.n + 1,
               correct |-> dResp.correct + (IF isCorrect THEN 1 ELSE 0),
               indices |-> Append(dResp.indices, dIndex)]
  /\ dTimers' = dTimers \cup {[next |-> dIndex + 1, trial |-> curTrial, resp |-> dResp',
                               mount |-> mountId, cap |-> Cap]}
  /\ UNCHANGED <<auxVars, pageVars, mountId, mountCap, trialState, animationFrameId, loops,
                 curTrial, dIndex, tasks, histVars>>

\* the timer callback: the next task, or endTrial() after the last one
AnswerTimer(t) ==
  /\ t \in dTimers
  /\ dTimers' = dTimers \ {t}
  /\ IF t.next >= TasksPerTrial
     THEN /\ BeginSave(SpatialTrial(t.trial, t.resp), t.cap, t.mount)
          /\ UNCHANGED <<dIndex, dAnswered>>
     ELSE /\ IF IsCurrent(t.mount)
             THEN dIndex' = t.next /\ dAnswered' = FALSE
             ELSE UNCHANGED <<dIndex, dAnswered>>
          /\ UNCHANGED <<tasks, stops>>
  /\ UNCHANGED <<auxVars, pageVars, mountId, mountCap, trialState, animationFrameId, loops,
                 curTrial, dResp, trialNo, runNo, invoked, ctl>>

\* ------------------------------------------- asynchronous continuations
RemoveAt(seq, i) == SubSeq(seq, 1, i - 1) \o SubSeq(seq, i + 1, Len(seq))

\* createTrial resolved: setTrialState('completed'), then onTrialComplete,
\* i.e. handleTrialComplete of the captured page render, up to
\* `await updateModuleRun(updatedModuleRun)`
CreateTrialDone(i) ==
  /\ i \in DOMAIN tasks
  /\ tasks[i].stage = "saving"
  /\ trialState' = IF IsCurrent(tasks[i].mount) THEN "completed" ELSE trialState
  /\ tasks' = IF tasks[i].cap.run = NoRun \/ ~tasks[i].cap.ses
              THEN RemoveAt(tasks, i)
              ELSE [tasks EXCEPT ![i].stage = "updating",
                                 ![i].updated =
                                   [tasks[i].cap.run EXCEPT
                                      !.trials = Append(@, tasks[i].trial.no)]]
  /\ UNCHANGED <<auxVars, pageVars, mountId, mountCap, animationFrameId, loops, curTrial,
                 dIndex, dAnswered, dResp, dTimers, histVars>>

\* updateModuleRun resolved: setActiveModuleRun(updatedModuleRun) and
\* adjustDifficulty(trial), both of the captured page render
UpdateModuleRunDone(i) ==
  /\ i \in DOMAIN tasks
  /\ tasks[i].stage = "updating"
  /\ tasks' = RemoveAt(tasks, i)
  /\ activeModuleRun' = tasks[i].updated
  /\ currentDifficulty' =
       AdjustDifficulty(tasks[i].cap.cd, currentDifficulty, tasks[i].trial)
  /\ UNCHANGED activeSession
  /\ MountFor(activeModuleRun', currentDifficulty', activeSession)
  /\ invoked' = [invoked EXCEPT ![tasks[i].trial.no] = @ + 1]
  /\ UNCHANGED <<auxVars, trialNo, runNo, stops, ctl>>

InitMain == InitPage /\ InitModule /\ InitHist /\ InitAux

\* the page with the tracking modules A and B
PageNext ==
  \/ EndSession
  \/ \E i \in 1..MaxTasks : CreateTrialDone(i)
  \/ \E i \in 1..MaxTasks : UpdateModuleRunDone(i)
TrackingNext ==
  \/ \E m \in {"A", "B"} : StartModule(m)
  \/ StartTrialA
  \/ StartTrialB
  \/ CanvasClickB
  \/ \E l \in loops : GameLoopTick(l)
  \/ \E l \in loops : TimedEnd(l)
  \/ ManualStop
Next == PageNext \/ TrackingNext
Spec == InitMain /\ [][Next]_vars

\* the page with the spatial module D
SpatialNext ==
  \/ StartModule("D")
  \/ StartTrialD
  \/ \E c \in BOOLEAN : AnswerSelect(c)
  \/ \E t \in dTimers : AnswerTimer(t)
NextD == PageNext \/ SpatialNext
SpecD == InitMain /\ [][NextD]_vars

\* Module D alone, within one module run that is not ended
TrialDNext ==
  \/ StartModule("D")
  \/ StartTrialD
  \/ \E c \in BOOLEAN : AnswerSelect(c)
  \/ \E t \in dTimers : AnswerTimer(t)
  \/ \E i \in 1..MaxTasks : CreateTrialDone(i)
  \/ \E i \in 1..MaxTasks : UpdateModuleRunDone(i)
SpecTrialD == InitMain /\ [][TrialDNext]_vars

\* the page with module A and trials that run to their timed end
RunsNext ==
  \/ StartModule("A")
  \/ EndSession
  \/ StartTrialA
  \/ \E l \in loops : GameLoopTick(l)
  \/ \E l \in loops : TimedEnd(l)
  \/ \E i \in 1..MaxTasks : CreateTrialDone(i)
  \/ \E i \in 1..MaxTasks : UpdateModuleRunDone(i)
SpecRuns == InitMain /\ [][RunsNext]_vars

\* ------------------------------------------------- auditory trials
\* One component, Module C or Module F running its audio baseline, at a
\* difficulty the page can hold. The trial lasts AudDurationMs. A callback
\* runs at the time it was scheduled for; a requested animation frame runs
\* FrameMs later. Each handler is a function from the component's state s,
\* with s.now the time at which it runs, to the state it leaves.
AudDifficulties == {30, 40}
Timer(fn, at, raf) == [fn |-> fn, at |-> at, raf |-> raf]

\* stopTrial
StopTrial(s) ==
  LET recorded == IF s.currentStimulusIndex - 1 >= 0 /\ ~s.hasResponded
                  THEN Append(s.responses, NoResponse(s.currentStimulusIndex))
                  ELSE s.responses
  IN IF s.module = "C"
     THEN [s EXCEPT !.timers = {t \in @ : ~t.raf},
                    !.responses = recorded,
                    !.reducerCalls = @ + 1,
                    !.reducerInput = recorded,
                    !.reducerIndex = s.currentStimulusIndex,
                    !.saves = @ + 1]
     ELSE IF s.trialState = "baseline-audio"
     THEN [s EXCEPT !.isTrialRunning = FALSE,
                    !.responses = recorded,
                    !.reducerCalls = @ + 1,
                    !.reducerInput = recorded,
                    !.reducerIndex = s.currentStimulusIndex,
                    !.trialState = "idle"]
     ELSE [s EXCEPT !.isTrialRunning = FALSE]

\* the record presentNextStimulus makes for the previous stimulus: Module C
\* makes it only once the window has closed, Module F (recordMissedResponse)
\* whenever no response was registered
MissForPrevious(s) ==
  IF s.currentStimulusIndex > 0 /\ ~s.hasResponded
     /\ (s.module = "F" \/ s.now - s.previousStimulusStart > s.responseWindow.max)
  THEN Append(s.responses, NoResponse(s.currentStimulusIndex))
  ELSE s.responses

\* presentNextStimulus
PresentNextStimulus(s) ==
  LET elapsed == s.now - s.trialStartTime
      length == Len(s.stimulusSequence)
  IN IF elapsed >= AudDurationMs \/ s.currentStimulusIndex >= length
     THEN IF s.module = "C" \/ s.trialState = "baseline-audio"
          THEN StopTrial(s) ELSE s
     ELSE LET delay == s.stimulusSequence[s.currentStimulusIndex + 1] - elapsed
              index == s.currentStimulusIndex + 1
              next == IF index < length
                      THEN {Timer("present", s.now + FrameMs, TRUE)}
                      ELSE IF s.module = "C"
                      THEN {Timer("stop", s.now + s.responseWindow.max + 100, FALSE)}
                      ELSE IF s.trialState = "baseline-audio"
                      THEN {Timer("stop", s.now + 500, FALSE)}
                      ELSE {}
          IN IF delay > 0
             THEN [s EXCEPT !.timers = @ \cup {Timer("present", s.now + delay, FALSE)}]
             ELSE [s EXCEPT !.responses = MissForPrevious(s),
                            !.previousStimulusStart = s.now,
                            !.currentStimulusStart = s.now,
                            !.hasResponded = FALSE,
                            !.currentStimulusIndex = index,
                            !.timers = @ \cup next]

\* handleKeyDown with the space bar: handleResponse (Module C) or
\* handleAuditoryResponse (Module F)
HandleKeyDown(s) ==
  LET reactionTime == s.now - s.currentStimulusStart
      stimulusIndex == s.currentStimulusIndex - 1
      valid == IF s.module = "C"
               THEN /\ stimulusIndex >= 0
                    /\ stimulusIndex < Len(s.stimulusSequence)
                    /\ InWindow(reactionTime, s.responseWindow)
               ELSE /\ s.currentStimulusIndex # 0
                    /\ ~OutsideWindow(reactionTime, s.responseWindow)
  IN IF s.isTrialRunning /\ ~s.hasResponded /\ valid
     THEN [s EXCEPT !.responses =
                      Append(@, ValidResponse(s.currentStimulusIndex, reactionTime)),
                    !.hasResponded = TRUE]
     ELSE s

\* Module C prepareTrial, Module F startBaselineAudio: the 5 s countdown
PrepareTrial(s, sequence) ==
  IF s.module = "C"
  THEN [s EXCEPT !.trialNo = @ + 1,
                 !.trialState = "preparing",
                 !.timers = @ \cup {Timer("begin", s.now + 5 * 1000, FALSE)}]
  ELSE [s EXCEPT !.trialNo = @ + 1,
                 !.responses = <<>>,
                 !.currentStimulusIndex = 0,
                 !.stimulusSequence = sequence,
                 !.responseWindow = InlineResponseWindow(s.difficulty),
                 !.reducerCalls = 0, !.reducerInput = <<>>, !.reducerIndex = 0,
                 !.lastKey = -1,
                 !.trialState = "preparing-audio",
                 !.timers = @ \cup {Timer("begin", s.now + 5 * 1000, FALSE)}]

\* Module C beginTrial, Module F beginBaselineAudio
BeginTrial(s, sequence) ==
  IF s.module = "C"
  THEN PresentNextStimulus(
         [s EXCEPT !.responses = <<>>,
                   !.currentStimulusIndex = 0,
                   !.hasResponded = FALSE,
                   !.previousStimulusStart = 0,
                   !.stimulusSequence = sequence,
                   !.responseWindow = GetResponseWindow(s.difficulty),
                   !.reducerCalls = 0, !.reducerInput = <<>>, !.reducerIndex = 0,
                 !.lastKey = -1,
                   !.trialStartTime = s.now,
                   !.isTrialRunning = TRUE,
                   !.trialState = "running"])
  ELSE PresentNextStimulus(
         [s EXCEPT !.trialStartTime = s.now,
                   !.isTrialRunning = TRUE,
                   !.trialState = "baseline-audio"])

mainVars == <<pageVars, modVars, tasks, histVars, cost, restVars>>
Sequences(s) == GenerateStimulusSequence(s.difficulty, AudDurationMs)

\* a trial is started: Module C's Start button (disabled while preparing or
\* running); Module F's startBaselineAudio, which follows the 2D baseline
AudStart ==
  /\ aud.trialNo < MaxAudTrials
  /\ IF aud.module = "C" THEN aud.trialState \in {"idle", "completed"}
                         ELSE aud.trialState = "idle"
  /\ \E sequence \in IF aud.module = "C" THEN {<<>>} ELSE Sequences(aud) :
       aud' = PrepareTrial(aud, sequence)
  /\ UNCHANGED mainVars

\* a pending callback runs, the earliest first
AudTimer(t) ==
  /\ t \in aud.timers
  /\ \A u \in aud.timers : u.at >= t.at
  /\ LET s == [aud EXCEPT !.now = Max(@, t.at), !.timers = @ \ {t}]
     IN IF t.fn = "begin"
        THEN \E sequence \in IF aud.module = "C" THEN Sequences(aud) ELSE {<<>>} :
               aud' = BeginTrial(s, sequence)
        ELSE IF t.fn = "present"
        THEN aud' = PresentNextStimulus(s)
        ELSE aud' = StopTrial(s)
  /\ UNCHANGED mainVars

\* the space bar, reactionTime ms after the current stimulus started and
\* before any pending callback is due, while handleKeyDown lets it through
\* (isTrialRunning) and handleResponse does not return early
AudKeyDown(reactionTime) ==
  /\ aud.isTrialRunning
  /\ ~aud.hasResponded
  /\ aud.currentStimulusIndex > 0
  /\ aud.currentStimulusStart + reactionTime >= aud.now
  /\ \A u \in aud.timers : u.at >= aud.currentStimulusStart + reactionTime
  /\ aud' = HandleKeyDown([aud EXCEPT !.now = aud.currentStimulusStart + reactionTime,
                                      !.lastKey = reactionTime])
  /\ UNCHANGED mainVars

\* Module C's Stop Trial button, enabled while trialState = 'running'
\* (createTrial calls in flight are capped at MaxTasks)
AudStopClick ==
  /\ aud.module = "C"
  /\ aud.trialState = "running"
  /\ aud.saves < MaxTasks
  /\ aud' = StopTrial(aud)
  /\ UNCHANGED mainVars

\* Module C: createTrial resolved, the rest of stopTrial
AudSaveDone ==
  /\ aud.saves > 0
  /\ aud' = [aud EXCEPT !.saves = @ - 1,
                        !.isTrialRunning = FALSE,
                        !.trialState = "completed",
                        !.notified = @ + 1]
  /\ UNCHANGED mainVars

KeyTimes(s) ==
  {s.responseWindow.min - 1, s.responseWindow.min,
   s.responseWindow.max, s.responseWindow.max + 1}

InitAud ==
  /\ InitPage /\ InitModule /\ InitHist
  /\ \E m \in {"C", "F"} : \E d \in AudDifficulties : aud = AudIdle(m, d)
  /\ cost = NoCost
  /\ InitRest
NextAud ==
  \/ AudStart
  \/ \E t \in aud.timers : AudTimer(t)
  \/ \E reactionTime \in KeyTimes(aud) : AudKeyDown(reactionTime)
  \/ AudStopClick
  \/ AudSaveDone
SpecAud == InitAud /\ [][NextAud]_vars

\* ------------------------------------------------- the cost reducers
\* A JavaScript number is [k, v]: k = "fin" with v in thousandths, k = "inf"
\* with v the sign, or k = "nan". A finite quotient is rounded down to the
\* thousandth.
Fin(v) == [k |-> "fin", v |-> v]
Inf(sign) == [k |-> "inf", v |-> sign]
NaN == [k |-> "nan", v |-> 0]
Sign(v) == IF v > 0 THEN 1 ELSE IF v < 0 THEN -1 ELSE 0

\* a / b
JsDiv(a, b) ==
  IF a.k = "nan" \/ b.k = "nan" THEN NaN
  ELSE IF a.k = "inf" THEN IF b.k = "inf" THEN NaN
                           ELSE Inf(IF b.v < 0 THEN -a.v ELSE a.v)
  ELSE IF b.k = "inf" THEN Fin(0)
  ELSE IF b.v = 0 THEN IF a.v = 0 THEN NaN ELSE Inf(Sign(a.v))
  ELSE Fin((a.v * 1000) \div b.v)
\* a + b
JsAdd(a, b) ==
  IF a.k = "nan" \/ b.k = "nan" THEN NaN
  ELSE IF a.k = "inf" THEN IF b.k = "inf" /\ b.v # a.v THEN NaN ELSE a
  ELSE IF b.k = "inf" THEN b
  ELSE Fin(a.v + b.v)
\* a - b
JsSub(a, b) ==
  JsAdd(a, IF b.k = "nan" THEN NaN ELSE [b EXCEPT !.v = -@])
\* Math.abs(a)
JsAbs(a) == IF a.k = "nan" THEN NaN ELSE [a EXCEPT !.v = IF @ < 0 THEN -@ ELSE @]

\* RMSE values (0, 0.15, 0.3) and d-prime values (-1, 0, 1.5) the reducers
\* are given
RmseValues == {Fin(0), Fin(150), Fin(300)}
DPrimeValues == {Fin(-1000), Fin(0), Fin(1500)}

\* calculateMultitaskMetrics
CalculateMultitaskMetrics(baseline1D, baseline2D, dual1D, dual2D) ==
  LET cost1D == JsDiv(JsSub(dual1D, baseline1D), baseline1D)
      cost2D == JsDiv(JsSub(dual2D, baseline2D), baseline2D)
  IN [fn |-> "multitask",
      baseline1D |-> baseline1D, baseline2D |-> baseline2D,
      cost1D |-> cost1D, cost2D |-> cost2D,
      dualTaskCost |-> JsDiv(JsAdd(cost1D, cost2D), Fin(2000)),
      baselineRMSE |-> JsDiv(JsAdd(baseline1D, baseline2D), Fin(2000)),
      dualRMSE |-> JsDiv(JsAdd(dual1D, dual2D), Fin(2000))]

\* calculateTripleTaskMetrics: the costs
CalculateTripleTaskMetrics(metrics1D, metrics2D, metricsAudio, baseline1D, baseline2D, baselineAudio) ==
  LET dualBaselineRMSE == JsDiv(JsAdd(baseline1D, baseline2D), Fin(2000))
      tripleMotorRMSE == JsDiv(JsAdd(metrics1D, metrics2D), Fin(2000))
      dualMotorCost == JsDiv(JsSub(tripleMotorRMSE, dualBaselineRMSE), dualBaselineRMSE)
  IN [fn |-> "triple",
      dualBaselineRMSE |-> dualBaselineRMSE, baselineDPrime |-> baselineAudio,
      dualMotorCost |-> dualMotorCost,
      auditoryCost |-> IF baselineAudio # Fin(0)
                       THEN JsDiv(JsSub(metricsAudio, baselineAudio), JsAbs(baselineAudio))
                       ELSE Fin(0),
      motorInterferenceCost |-> dualMotorCost]

\* calculateInterruptMetrics: interferenceCost
CalculateInterruptMetrics(baselineRMSE, interruptRMSE) ==
  [fn |-> "interrupt",
   baselineRMSE |-> baselineRMSE, interruptRMSE |-> interruptRMSE,
   interferenceCost |-> IF baselineRMSE.v > 0
                        THEN JsDiv(JsSub(interruptRMSE, baselineRMSE), baselineRMSE)
                        ELSE Fin(0)]

costFrame == <<pageVars, modVars, tasks, histVars, aud, restVars>>
MultitaskStep ==
  /\ \E baseline1D \in RmseValues, baseline2D \in RmseValues,
        dual1D \in RmseValues, dual2D \in RmseValues :
       cost' = CalculateMultitaskMetrics(baseline1D, baseline2D, dual1D, dual2D)
  /\ UNCHANGED costFrame
TripleTaskStep ==
  /\ \E metrics1D \in RmseValues, metrics2D \in RmseValues,
        metricsAudio \in DPrimeValues,
        baseline1D \in RmseValues, baseline2D \in RmseValues,
        baselineAudio \in DPrimeValues :
       cost' = CalculateTripleTaskMetrics(metrics1D, metrics2D, metricsAudio,
                                          baseline1D, baseline2D, baselineAudio)
  /\ UNCHANGED costFrame
InterruptStep ==
  /\ \E baselineRMSE \in RmseValues, interruptRMSE \in RmseValues :
       cost' = CalculateInterruptMetrics(baselineRMSE, interruptRMSE)
  /\ UNCHANGED costFrame

NextCost == MultitaskStep \/ TripleTaskStep \/ InterruptStep
SpecCost == InitMain /\ [][NextCost]_vars

\* ============================================== target generators
\* Positions, velocities, accelerations and noise are in thousandths, times
\* in milliseconds, frequencies in thousandths of a hertz, angles in
\* thousandths of a radian; every product is divided back to that scale as
\* soon as it is formed.  Math.random() is a draw from a small set.
BoundsMin == -1000
BoundsMax == 1000
MaxUpdates == 2
MaxGets == 2
GenDifficulties == {0, 50, 100}
\* a frame at 60 FPS, a stalled frame, and a step long enough to carry a
\* target past a wall
DtValues == {17, 500, 2000}
\* (Math.random() - 0.5) * 2 lies in [-1, 1)
NoiseValues == {-1000, 0, 999}
\* Math.random() * Math.PI * 2 lies in [0, 2 pi)
AngleValues == {0, 785, 3142, 4712}
PhaseValues == {<<0, 0, 0>>, <<1571, 1571, 1571>>, <<524, 2618, 4712>>}
TwoPi == 6283
Pi == 3142
HalfPi == 1571

Abs(v) == IF v < 0 THEN -v ELSE v
RECURSIVE SqrtBetween(_, _, _)
SqrtBetween(n, lo, hi) ==
  IF lo >= hi THEN lo
  ELSE LET mid == (lo + hi + 1) \div 2
       IN IF mid * mid <= n THEN SqrtBetween(n, mid, hi)
          ELSE SqrtBetween(n, lo, mid - 1)
\* Math.sqrt, rounded down
ISqrt(n) == SqrtBetween(n, 0, 40000)
\* Math.sin on a twelve-step table
Sin12 == <<0, 500, 866, 1000, 866, 500, 0, -500, -866, -1000, -866, -500>>
MathSin(a) == Sin12[(((a % TwoPi) * 12) \div TwoPi) + 1]
MathCos(a) == MathSin(a + HalfPi)

\* ---- OrnsteinUhlenbeckGenerator
OUNew(d) ==
  LET mu == (BoundsMin + BoundsMax) \div 2
  IN [mu |-> mu, theta |-> 500 + 15 * d, sigma |-> 300 + 7 * d, x |-> mu]
OUUpdate_NoClamp(g, dt, noise) ==
  LET dx == (((g.theta * (g.mu - g.x)) \div 1000) * dt) \div 1000
            + (((g.sigma * ISqrt(dt * 1000)) \div 1000) * noise) \div 1000
      x1 == g.x + dx
  IN [s |-> [g EXCEPT !.x = x1], v |-> <<x1>>]
OUUpdate(g, dt, noise) ==
  LET dx == (((g.theta * (g.mu - g.x)) \div 1000) * dt) \div 1000
            + (((g.sigma * ISqrt(dt * 1000)) \div 1000) * noise) \div 1000
      x1 == g.x + dx
      x2 == IF x1 < BoundsMin THEN BoundsMin
            ELSE IF x1 > BoundsMax THEN BoundsMax ELSE x1
  IN [s |-> [g EXCEPT !.x = x2], v |-> <<x2>>]
OUGetPosition(g) == [s |-> g, v |-> <<g.x>>]

\* ---- SinusoidGenerator
SinNew(d, phases) ==
  LET baseFreq == 300 + 7 * d
  IN [t |-> 0, amplitude |-> ((BoundsMax - BoundsMin) * 4) \div 10,
      center |-> (BoundsMin + BoundsMax) \div 2,
      frequencies |-> <<baseFreq, (baseFreq * 1618) \div 1000, baseFreq \div 2>>,
      phases |-> phases]
\* the weights are 1, 1/2, 1/3 and their sum is 11/6
SinPosition(g) ==
  LET term(i) == MathSin((TwoPi * ((g.frequencies[i] * g.t) \div 1000)) \div 1000
                         + g.phases[i])
      normalizedSum == (6 * term(1) + 3 * term(2) + 2 * term(3)) \div 11
  IN g.center + (g.amplitude * normalizedSum) \div 1000
SinUpdate(g, dt) ==
  LET g1 == [g EXCEPT !.t = @ + dt]
  IN [s |-> g1, v |-> <<Max(BoundsMin, Min(BoundsMax, SinPosition(g1)))>>]
SinGetPosition_Advancing(g) ==
  LET g1 == [g EXCEPT !.t = @ + 17]
  IN [s |-> g1, v |-> <<SinPosition(g1)>>]
SinGetPosition(g) == [s |-> g, v |-> <<SinPosition(g)>>]

\* ---- PiecewiseGenerator
PiecewiseNew(d) ==
  [x |-> (BoundsMin + BoundsMax) \div 2, v |-> 0, a |-> 0,
   timeSinceAccelChange |-> 0,
   maxAccel |-> 500 + 15 * d, maxJerk |-> 2000 + 40 * d,
   accelChangePeriod |-> (500 * 100) \div (100 + d)]
PiecewiseUpdate(g, dt, noise) ==
  LET time == g.timeSinceAccelChange + dt
      change == time >= g.accelChangePeriod
      targetAccel == (noise * g.maxAccel) \div 1000
      jerk == Sign(targetAccel - g.a) * g.maxJerk
      a1 == IF change
            THEN Max(-g.maxAccel, Min(g.maxAccel, g.a + (jerk * dt) \div 1000))
            ELSE g.a
      v1 == g.v + (a1 * dt) \div 1000
      x1 == g.x + (v1 * dt) \div 1000
      x2 == IF x1 < BoundsMin THEN BoundsMin
            ELSE IF x1 > BoundsMax THEN BoundsMax ELSE x1
      v2 == IF x1 < BoundsMin THEN (Abs(v1) * 8) \div 10
            ELSE IF x1 > BoundsMax THEN -((Abs(v1) * 8) \div 10) ELSE v1
  IN [s |-> [g EXCEPT !.timeSinceAccelChange = IF change THEN 0 ELSE time,
                      !.a = a1, !.v = v2, !.x = x2],
      v |-> <<x2>>]
PiecewiseGetPosition(g) == [s |-> g, v |-> <<g.x>>]

\* ---- MomentumGenerator
MomentumNew(d) ==
  [x |-> (BoundsMin + BoundsMax) \div 2, y |-> (BoundsMin + BoundsMax) \div 2,
   vx |-> 0, vy |-> 0, maxSpeed |-> 300 + 7 * d,
   acceleration |-> 500 + 15 * d, damping |-> 95]
MomentumUpdate(g, dt, rx, ry) ==
  LET ax == (rx * g.acceleration) \div 1000
      ay == (ry * g.acceleration) \div 1000
      vx1 == ((g.vx + (ax * dt) \div 1000) * g.damping) \div 100
      vy1 == ((g.vy + (ay * dt) \div 1000) * g.damping) \div 100
      speed == ISqrt(vx1 * vx1 + vy1 * vy1)
      vx2 == IF speed > g.maxSpeed THEN (vx1 * g.maxSpeed) \div speed ELSE vx1
      vy2 == IF speed > g.maxSpeed THEN (vy1 * g.maxSpeed) \div speed ELSE vy1
      x1 == g.x + (vx2 * dt) \div 1000
      y1 == g.y + (vy2 * dt) \div 1000
      x2 == IF x1 < BoundsMin THEN BoundsMin
            ELSE IF x1 > BoundsMax THEN BoundsMax ELSE x1
      vx3 == IF x1 < BoundsMin THEN (Abs(vx2) * 8) \div 10
             ELSE IF x1 > BoundsMax THEN -((Abs(vx2) * 8) \div 10) ELSE vx2
      y2 == IF y1 < BoundsMin THEN BoundsMin
            ELSE IF y1 > BoundsMax THEN BoundsMax ELSE y1
      vy3 == IF y1 < BoundsMin THEN (Abs(vy2) * 8) \div 10
             ELSE IF y1 > BoundsMax THEN -((Abs(vy2) * 8) \div 10) ELSE vy2
  IN [s |-> [g EXCEPT !.x = x2, !.y = y2, !.vx = vx3, !.vy = vy3],
      v |-> <<x2, y2>>]
MomentumGetPosition(g) == [s |-> g, v |-> <<g.x, g.y>>]

\* ---- CurvilinearGenerator
CurvilinearNew(d, angle) ==
  [x |-> (BoundsMin + BoundsMax) \div 2, y |-> (BoundsMin + BoundsMax) \div 2,
   angle |-> angle, angularVelocity |-> 0, speed |-> 300 + 5 * d,
   maxCurvature |-> 1000 + 20 * d, timeSinceDirectionChange |-> 0,
   directionChangePeriod |-> (500 * 100) \div (100 + d)]
CurvilinearUpdate(g, dt, noise) ==
  LET time == g.timeSinceDirectionChange + dt
      change == time >= g.directionChangePeriod
      av1 == IF change THEN (noise * g.maxCurvature) \div 1000
             ELSE g.angularVelocity
      angle1 == g.angle + (av1 * dt) \div 1000
      x1 == g.x + (((MathCos(angle1) * g.speed) \div 1000) * dt) \div 1000
      y1 == g.y + (((MathSin(angle1) * g.speed) \div 1000) * dt) \div 1000
      bouncedX == x1 < BoundsMin \/ x1 > BoundsMax
      bouncedY == y1 < BoundsMin \/ y1 > BoundsMax
      x2 == IF x1 < BoundsMin THEN BoundsMin
            ELSE IF x1 > BoundsMax THEN BoundsMax ELSE x1
      angle2 == IF bouncedX THEN Pi - angle1 ELSE angle1
      y2 == IF y1 < BoundsMin THEN BoundsMin
            ELSE IF y1 > BoundsMax THEN BoundsMax ELSE y1
      angle3 == IF bouncedY THEN -angle2 ELSE angle2
      av2 == IF bouncedX \/ bouncedY THEN -((av1 * 7) \div 10) ELSE av1
  IN [s |-> [g EXCEPT !.timeSinceDirectionChange = IF change THEN 0 ELSE time,
                      !.angularVelocity = av2, !.angle = angle3,
                      !.x = x2, !.y = y2],
      v |-> <<x2, y2>>]
CurvilinearGetPosition(g) == [s |-> g, v |-> <<g.x, g.y>>]

\* ---- the factories and the calls made on the object they return
NewGen(kind, s) ==
  [kind |-> kind, s |-> s, n |-> 0, gets |-> 0, out |-> <<>>, op |-> "new",
   held |-> s, in |-> <<>>]
createTargetGenerator ==
  {NewGen("ornstein-uhlenbeck", OUNew(d)) : d \in GenDifficulties}
  \cup {NewGen("sinusoid", SinNew(d, ph)) :
          d \in GenDifficulties, ph \in PhaseValues}
  \cup {NewGen("piecewise", PiecewiseNew(d)) : d \in GenDifficulties}
createTargetGenerator2D ==
  {NewGen("momentum", MomentumNew(d)) : d \in GenDifficulties}
  \cup {NewGen("curvilinear", CurvilinearNew(d, a)) :
          d \in GenDifficulties, a \in AngleValues}
\* update(dt) with the values Math.random() returned during the call
UpdateOf(kind, s, in) ==
  CASE kind = "ornstein-uhlenbeck" -> OUUpdate(s, in[1], in[2])
    [] kind = "sinusoid" -> SinUpdate(s, in[1])
    [] kind = "piecewise" -> PiecewiseUpdate(s, in[1], in[2])
    [] kind = "momentum" -> MomentumUpdate(s, in[1], in[2], in[3])
    [] kind = "curvilinear" -> CurvilinearUpdate(s, in[1], in[2])
GetPositionOf(kind, s) ==
  CASE kind = "ornstein-uhlenbeck" -> OUGetPosition(s)
    [] kind = "sinusoid" -> SinGetPosition(s)
    [] kind = "piecewise" -> PiecewiseGetPosition(s)
    [] kind = "momentum" -> MomentumGetPosition(s)
    [] kind = "curvilinear" -> CurvilinearGetPosition(s)

genFrame == <<pageVars, modVars, tasks, histVars, aud, cost, red, task, trk, mt, stimSeq, mg>>
Updated(in) ==
  LET r == UpdateOf(gen.kind, gen.s, in)
  IN /\ gen.n < MaxUpdates
     /\ gen' = [gen EXCEPT !.s = r.s, !.out = r.v, !.n = @ + 1, !.gets = 0,
                           !.op = "update", !.held = r.s, !.in = in]
     /\ UNCHANGED genFrame
GenUpdateOU ==
  /\ gen.kind = "ornstein-uhlenbeck"
  /\ \E dt \in DtValues, noise \in NoiseValues : Updated(<<dt, noise>>)
GenUpdateSin ==
  /\ gen.kind = "sinusoid"
  /\ \E dt \in DtValues : Updated(<<dt>>)
GenUpdatePiecewise ==
  /\ gen.kind = "piecewise"
  /\ \E dt \in DtValues, noise \in NoiseValues : Updated(<<dt, noise>>)
GenUpdateMomentum ==
  /\ gen.kind = "momentum"
  /\ \E dt \in DtValues, rx \in NoiseValues, ry \in NoiseValues :
       Updated(<<dt, rx, ry>>)
GenUpdateCurvilinear ==
  /\ gen.kind = "curvilinear"
  /\ \E dt \in DtValues, noise \in NoiseValues : Updated(<<dt, noise>>)
GenGetPosition ==
  LET r == GetPositionOf(gen.kind, gen.s)
  IN /\ gen.gets < MaxGets
     /\ gen' = [gen EXCEPT !.s = r.s, !.out = r.v, !.gets = @ + 1,
                           !.op = "get",
                           !.held = IF gen.op = "get" THEN @ ELSE gen.s]
     /\ UNCHANGED genFrame

InitGen ==
  /\ InitPage /\ InitModule /\ InitHist
  /\ aud = AudIdle("C", InitialDifficulty) /\ cost = NoCost /\ red = NoRed
  /\ task = NoTask /\ trk = NoTrk /\ mt = NoMt
  /\ stimSeq = NoStim /\ mg = NoMg
  /\ gen \in createTargetGenerator \cup createTargetGenerator2D
NextGen ==
  \/ GenUpdateOU
  \/ GenUpdateSin
  \/ GenUpdatePiecewise
  \/ GenUpdateMomentum
  \/ GenUpdateCurvilinear
  \/ GenGetPosition
SpecGen == InitGen /\ [][NextGen]_vars

\* ================================================ metrics reducers
\* Positions and errors are in thousandths, squared errors in millionths,
\* times in milliseconds, rates and percentages in thousandths.  A quotient
\* is a JavaScript number, so that a division by an empty length shows.
MaxSamples == 2
SampleGapMs == 1500
TargetThreshold1D == 50
TargetThreshold2D == 100
InterruptWindowMs == 1000
RecoveryWindow == 10
NullTime == -1

\* sum / n for a count n
JsMean(sum, n) ==
  IF n = 0 THEN IF sum = 0 THEN NaN ELSE Inf(Sign(sum)) ELSE Fin(sum \div n)
\* Math.sqrt
JsSqrt(a) ==
  IF a.k = "nan" THEN NaN
  ELSE IF a.k = "inf" THEN IF a.v > 0 THEN a ELSE NaN
  ELSE IF a.v < 0 THEN NaN ELSE Fin(ISqrt(a.v))
RECURSIVE SumTo(_, _)
SumTo(f, n) == IF n = 0 THEN 0 ELSE f[n] + SumTo(f, n - 1)
\* every sequence over S of length at most n
SeqsUpTo(S, n) == UNION {[1..k -> S] : k \in 0..n}

\* ---- calculateTrackingMetrics
Sample1D(target, cursor, input) ==
  [targetPosition |-> target, cursorPosition |-> cursor, inputValue |-> input]
Samples1D ==
  {Sample1D(0, 0, 0), Sample1D(500, 470, 100), Sample1D(-300, 400, -1000),
   Sample1D(1000, -1000, 1000)}
EmptyTrackingMetrics ==
  [mae |-> Fin(0), rmse |-> Fin(0), timeOnTarget |-> Fin(0),
   overshootCount |-> 0, overshootMagnitude |-> Fin(0), smoothness |-> Fin(0)]
calculateSmoothness(samples) ==
  LET n == Len(samples)
      change == [i \in 1..n |->
                   IF i = 1 THEN 0
                   ELSE Abs(samples[i].inputValue - samples[i - 1].inputValue)]
  IN IF n < 2 THEN Fin(0) ELSE JsMean(SumTo(change, n), n - 1)
TrackingMetricsBody(samples) ==
  LET n == Len(samples)
      errors == [i \in 1..n |->
                   samples[i].targetPosition - samples[i].cursorPosition]
      absErrors == [i \in 1..n |-> Abs(errors[i])]
      squaredErrors == [i \in 1..n |-> errors[i] * errors[i]]
      timeOnTarget == Cardinality({i \in 1..n : absErrors[i] <= TargetThreshold1D})
      overshoots == {i \in 2..n : /\ Sign(errors[i]) # Sign(errors[i - 1])
                                  /\ absErrors[i] > TargetThreshold1D}
      overshootCount == Cardinality(overshoots)
      totalOvershootMagnitude ==
        SumTo([i \in 1..n |-> IF i \in overshoots THEN absErrors[i] ELSE 0], n)
  IN [mae |-> JsMean(SumTo(absErrors, n), n),
      rmse |-> JsSqrt(JsMean(SumTo(squaredErrors, n), n)),
      timeOnTarget |-> JsMean(timeOnTarget * 100000, n),
      overshootCount |-> overshootCount,
      overshootMagnitude |-> IF overshootCount > 0
                             THEN JsMean(totalOvershootMagnitude, overshootCount)
                             ELSE Fin(0),
      smoothness |-> calculateSmoothness(samples)]
calculateTrackingMetrics_NoGuard(samples) == TrackingMetricsBody(samples)
calculateTrackingMetrics(samples) ==
  IF Len(samples) = 0 THEN EmptyTrackingMetrics
  ELSE TrackingMetricsBody(samples)

\* ---- calculateTrackingMetrics2D
Sample2D(timestamp, target, cursor, input) ==
  [timestamp |-> timestamp, targetPosition |-> target,
   cursorPosition |-> cursor, inputValue |-> input]
Points2D ==
  {[target |-> <<0, 0>>, cursor |-> <<0, 0>>, input |-> <<0, 0>>],
   [target |-> <<300, 400>>, cursor |-> <<0, 0>>, input |-> <<1000, 0>>],
   [target |-> <<-600, 0>>, cursor |-> <<200, 600>>, input |-> <<0, -1000>>]}
\* samples taken every SampleGapMs from the trial start
Sampled2D(points) ==
  [i \in DOMAIN points |->
     Sample2D((i - 1) * SampleGapMs, points[i].target, points[i].cursor,
              points[i].input)]
Distance(p, q) ==
  ISqrt((p[1] - q[1]) * (p[1] - q[1]) + (p[2] - q[2]) * (p[2] - q[2]))
EmptyTrackingMetrics2D ==
  [mae |-> Fin(0), rmse |-> Fin(0), timeOnTarget |-> Fin(0),
   overshootCount |-> 0, overshootMagnitude |-> Fin(0), smoothness |-> Fin(0),
   reacquisitionTimes |-> <<>>]
calculateSmoothness2D(samples) ==
  LET n == Len(samples)
      change == [i \in 1..n |->
                   IF i = 1 THEN 0
                   ELSE Distance(samples[i].inputValue, samples[i - 1].inputValue)]
  IN IF n < 2 THEN Fin(0) ELSE JsMean(SumTo(change, n), n - 1)
\* the loop over the samples: the off-target flag and the time of the loss
RECURSIVE Reacquisition(_, _, _, _, _)
Reacquisition(samples, i, isOffTarget, lossTime, times) ==
  IF i > Len(samples) THEN times
  ELSE LET error == Distance(samples[i].targetPosition, samples[i].cursorPosition)
       IN IF error <= TargetThreshold2D
          THEN IF isOffTarget
               THEN Reacquisition(samples, i + 1, FALSE, lossTime,
                                  Append(times, samples[i].timestamp - lossTime))
               ELSE Reacquisition(samples, i + 1, FALSE, lossTime, times)
          ELSE IF ~isOffTarget
               THEN Reacquisition(samples, i + 1, TRUE, samples[i].timestamp, times)
               ELSE Reacquisition(samples, i + 1, TRUE, lossTime, times)
calculateTrackingMetrics2D(samples) ==
  LET n == Len(samples)
      errors == [i \in 1..n |->
                   Distance(samples[i].targetPosition, samples[i].cursorPosition)]
      squaredErrors == [i \in 1..n |-> errors[i] * errors[i]]
      timeOnTarget == Cardinality({i \in 1..n : errors[i] <= TargetThreshold2D})
      vec(i) == <<samples[i].targetPosition[1] - samples[i].cursorPosition[1],
                  samples[i].targetPosition[2] - samples[i].cursorPosition[2]>>
      dot(i) == vec(i - 2)[1] * vec(i)[1] + vec(i - 2)[2] * vec(i)[2]
      overshoots == {i \in 3..n : /\ dot(i) < 0
                                  /\ errors[i - 2] > TargetThreshold2D
                                  /\ errors[i] > TargetThreshold2D}
      overshootCount == Cardinality(overshoots)
      totalOvershootMagnitude ==
        SumTo([i \in 1..n |-> IF i \in overshoots
                              THEN (errors[i - 2] + errors[i]) \div 2 ELSE 0], n)
  IN IF n = 0 THEN EmptyTrackingMetrics2D
     ELSE [mae |-> JsMean(SumTo(errors, n), n),
           rmse |-> JsSqrt(JsMean(SumTo(squaredErrors, n), n)),
           timeOnTarget |-> JsMean(timeOnTarget * 100000, n),
           overshootCount |-> overshootCount,
           overshootMagnitude |-> IF overshootCount > 0
                                  THEN JsMean(totalOvershootMagnitude, overshootCount)
                                  ELSE Fin(0),
           smoothness |-> calculateSmoothness2D(samples),
           reacquisitionTimes |-> Reacquisition(samples, 1, FALSE, 0, <<>>)]

\* ---- calculateAttentionMetrics
AttentionResponse(isTarget, responded, reactionTime) ==
  [isTarget |-> isTarget, responded |-> responded, reactionTime |-> reactionTime]
AttentionResponses ==
  {AttentionResponse(TRUE, TRUE, 400), AttentionResponse(TRUE, FALSE, NullTime),
   AttentionResponse(FALSE, TRUE, 700), AttentionResponse(FALSE, FALSE, NullTime)}
\* correctRate
correctRate(rate) == IF rate = 0 THEN 10 ELSE IF rate = 1000 THEN 990 ELSE rate
\* inverseNormalCDF, tabulated: the z-score of the greatest tabulated
\* probability not above p
ZTable ==
  <<<<10, -2326>>, <<250, -674>>, <<333, -431>>, <<500, 0>>, <<666, 429>>,
    <<750, 674>>, <<990, 2326>>>>
inverseNormalCDF(p) ==
  IF p <= 0 THEN -6000
  ELSE IF p >= 1000 THEN 6000
  ELSE LET below == {i \in DOMAIN ZTable : ZTable[i][1] <= p}
       IN IF below = {} THEN ZTable[1][2]
          ELSE ZTable[CHOOSE i \in below : \A j \in below : j <= i][2]
calculateDPrime(hitRate, falseAlarmRate) ==
  inverseNormalCDF(correctRate(hitRate)) - inverseNormalCDF(correctRate(falseAlarmRate))
\* [...values].sort((a, b) => a - b)
RECURSIVE SortAscending(_)
SortAscending(values) ==
  IF Len(values) = 0 THEN <<>>
  ELSE LET i == CHOOSE k \in DOMAIN values :
                  \A j \in DOMAIN values : values[k] <= values[j]
       IN <<values[i]>> \o SortAscending(RemoveAt(values, i))
calculateMedian(values) ==
  LET sorted == SortAscending(values)
      mid == Len(sorted) \div 2
  IN IF Len(sorted) % 2 = 0 THEN (sorted[mid] + sorted[mid + 1]) \div 2
     ELSE sorted[mid + 1]
EmptyAttentionMetrics ==
  [hitRate |-> Fin(0), missRate |-> Fin(0), falseAlarmRate |-> Fin(0),
   dPrime |-> 0, reactionTimes |-> <<>>, meanRT |-> Fin(0), medianRT |-> 0]
calculateAttentionMetrics(responses) ==
  LET isHit(r) == r.isTarget /\ r.responded
      isMiss(r) == r.isTarget /\ ~r.responded
      isFalseAlarm(r) == ~r.isTarget /\ r.responded
      isTarget(r) == r.isTarget
      nonTarget(r) == ~r.isTarget
      targets == Len(SelectSeq(responses, isTarget))
      nonTargets == Len(SelectSeq(responses, nonTarget))
      hitRate == IF targets > 0
                 THEN JsMean(Len(SelectSeq(responses, isHit)) * 1000, targets) ELSE Fin(0)
      missRate == IF targets > 0
                  THEN JsMean(Len(SelectSeq(responses, isMiss)) * 1000, targets) ELSE Fin(0)
      falseAlarmRate == IF nonTargets > 0
                        THEN JsMean(Len(SelectSeq(responses, isFalseAlarm)) * 1000, nonTargets)
                        ELSE Fin(0)
      timed(r) == r.reactionTime # NullTime
      reactionTimes == [r \in DOMAIN SelectSeq(responses, timed) |->
                          SelectSeq(responses, timed)[r].reactionTime]
  IN IF Len(responses) = 0 THEN EmptyAttentionMetrics
     ELSE [hitRate |-> hitRate, missRate |-> missRate,
           falseAlarmRate |-> falseAlarmRate,
           dPrime |-> calculateDPrime(hitRate.v, falseAlarmRate.v),
           reactionTimes |-> reactionTimes,
           meanRT |-> IF Len(reactionTimes) > 0
                      THEN JsMean(SumTo(reactionTimes, Len(reactionTimes)),
                                  Len(reactionTimes))
                      ELSE Fin(0),
           medianRT |-> IF Len(reactionTimes) > 0
                        THEN calculateMedian(reactionTimes) ELSE 0]

\* ---- calculateSpatialMetrics
SpatialResponse(isCorrect, reactionTime) ==
  [isCorrect |-> isCorrect, reactionTime |-> reactionTime]
SpatialResponses ==
  {SpatialResponse(TRUE, 1200), SpatialResponse(FALSE, 3000),
   SpatialResponse(FALSE, 0), SpatialResponse(TRUE, 0)}
EmptySpatialMetrics ==
  [accuracy |-> Fin(0), reactionTime |-> Fin(0), speedAccuracyTradeoff |-> Fin(0)]
calculateSpatialMetrics(responses) ==
  LET n == Len(responses)
      correct(r) == r.isCorrect
      accuracy == JsMean(Len(SelectSeq(responses, correct)) * 1000, n)
      reactionTime == JsMean(SumTo([i \in 1..n |-> responses[i].reactionTime], n), n)
  IN IF n = 0 THEN EmptySpatialMetrics
     ELSE [accuracy |-> accuracy, reactionTime |-> reactionTime,
           speedAccuracyTradeoff |->
             IF reactionTime.v > 0
             THEN JsMean(accuracy.v * 1000, reactionTime.v) ELSE Fin(0)]

\* ---- calculateInterruptMetrics
Interrupt(id, appearTime) == [id |-> id, appearTime |-> appearTime]
InterruptResponse(interruptId, responseTime, correct, missed) ==
  [interruptId |-> interruptId, responseTime |-> responseTime,
   correct |-> correct, missed |-> missed]
InterruptLists ==
  {<<>>, <<Interrupt(1, 3000)>>, <<Interrupt(1, 3000), Interrupt(2, 9000)>>}
InterruptResponseLists ==
  {<<>>, <<InterruptResponse(1, 600, TRUE, FALSE)>>,
   <<InterruptResponse(1, 900, FALSE, FALSE)>>,
   <<InterruptResponse(1, 2000, FALSE, TRUE)>>,
   <<InterruptResponse(1, 600, TRUE, FALSE), InterruptResponse(2, 2000, FALSE, TRUE)>>}
BaselineDurations == {3000}
\* calculateRMSE
calculateRMSE(samples) ==
  LET n == Len(samples)
      squared == [i \in 1..n |->
                    LET error == Distance(samples[i].targetPosition,
                                          samples[i].cursorPosition)
                    IN error * error]
  IN IF n = 0 THEN Fin(0) ELSE JsSqrt(JsMean(SumTo(squared, n), n))
createEmptyMetrics ==
  [baselineRMSE |-> Fin(0), interruptRMSE |-> Fin(0), overallRMSE |-> Fin(0),
   interferenceCost |-> Fin(0), interruptAccuracy |-> Fin(0),
   interruptHitRate |-> Fin(0), interruptMissRate |-> Fin(0),
   interruptErrorRate |-> Fin(0), meanReactionTime |-> Fin(0),
   meanRecoveryTime |-> Fin(0), totalInterrupts |-> 0, correctResponses |-> 0,
   incorrectResponses |-> 0, missedResponses |-> 0]
\* the recovery time of one interrupt, NullTime when none is found
RecoveryTimeOf(samples, interrupt, responses, baselineRMSE) ==
  LET mine == {i \in DOMAIN responses : responses[i].interruptId = interrupt.id}
      response == responses[CHOOSE i \in mine : \A j \in mine : i <= j]
      searchStartTime == interrupt.appearTime + response.responseTime
      after(s) == s.timestamp > searchStartTime
      postResponseSamples == SelectSeq(samples, after)
      recoveryThreshold == (baselineRMSE.v * 12) \div 10
      recovered == {i \in 1..(Len(postResponseSamples) - RecoveryWindow) :
                      calculateRMSE(SubSeq(postResponseSamples, i,
                                           i + RecoveryWindow - 1)).v
                        <= recoveryThreshold}
  IN IF mine = {} THEN NullTime
     ELSE IF response.missed THEN NullTime
     ELSE IF recovered = {} THEN NullTime
     ELSE postResponseSamples[CHOOSE i \in recovered :
                                \A j \in recovered : i <= j].timestamp
          - searchStartTime
calculateMeanRecoveryTime(samples, interrupts, responses, baselineRMSE) ==
  LET times == [i \in DOMAIN interrupts |->
                  RecoveryTimeOf(samples, interrupts[i], responses, baselineRMSE)]
      found == {i \in DOMAIN interrupts : times[i] # NullTime}
  IN IF found = {} THEN Fin(0)
     ELSE JsMean(SumTo([i \in DOMAIN interrupts |->
                          IF i \in found THEN times[i] ELSE 0], Len(interrupts)),
                 Cardinality(found))
\* count / totalInterrupts, 0 without interrupts
InterruptRate_ManyOnly(count, totalInterrupts) ==
  IF totalInterrupts > 1 THEN JsMean(count * 1000, totalInterrupts) ELSE Fin(0)
InterruptRate(count, totalInterrupts) ==
  IF totalInterrupts > 0 THEN JsMean(count * 1000, totalInterrupts) ELSE Fin(0)
InterruptMetricsOf(samples, interrupts, responses, baselineDuration) ==
  LET inWindow(s) == \E i \in DOMAIN interrupts :
                       /\ s.timestamp >= interrupts[i].appearTime - InterruptWindowMs
                       /\ s.timestamp <= interrupts[i].appearTime + InterruptWindowMs
      baseline(s) == ~inWindow(s) /\ s.timestamp < baselineDuration
      baselineRMSE == calculateRMSE(SelectSeq(samples, baseline))
      interruptRMSE == calculateRMSE(SelectSeq(samples, inWindow))
      isCorrect(r) == r.correct /\ ~r.missed
      isIncorrect(r) == ~r.correct /\ ~r.missed
      isMissed(r) == r.missed
      correctResponses == Len(SelectSeq(responses, isCorrect))
      incorrectResponses == Len(SelectSeq(responses, isIncorrect))
      missedResponses == Len(SelectSeq(responses, isMissed))
      totalInterrupts == Len(interrupts)
      rate(count) == InterruptRate(count, totalInterrupts)
      correctTimes == SelectSeq(responses, isCorrect)
  IN IF Len(samples) = 0 THEN createEmptyMetrics
     ELSE [baselineRMSE |-> baselineRMSE, interruptRMSE |-> interruptRMSE,
           overallRMSE |-> calculateRMSE(samples),
           interferenceCost |->
             CalculateInterruptMetrics(baselineRMSE, interruptRMSE).interferenceCost,
           interruptAccuracy |-> rate(correctResponses),
           interruptHitRate |-> rate(correctResponses + incorrectResponses),
           interruptMissRate |-> rate(missedResponses),
           interruptErrorRate |-> rate(incorrectResponses),
           meanReactionTime |->
             IF Len(correctTimes) > 0
             THEN JsMean(SumTo([i \in DOMAIN correctTimes |->
                                  correctTimes[i].responseTime], Len(correctTimes)),
                         Len(correctTimes))
             ELSE Fin(0),
           meanRecoveryTime |->
             calculateMeanRecoveryTime(samples, interrupts, responses, baselineRMSE),
           totalInterrupts |-> totalInterrupts,
           correctResponses |-> correctResponses,
           incorrectResponses |-> incorrectResponses,
           missedResponses |-> missedResponses]

\* ---- one call of a reducer (a behaviour holds a single call)
redFrame == <<pageVars, modVars, tasks, histVars, aud, cost, gen, task, trk, mt, stimSeq, mg>>
TrackingMetricsStep ==
  /\ red = NoRed
  /\ \E samples \in SeqsUpTo(Samples1D, MaxSamples) :
       red' = [fn |-> "tracking", empty |-> samples = <<>>,
               input |-> samples, out |-> calculateTrackingMetrics(samples)]
  /\ UNCHANGED redFrame
TrackingMetrics2DStep ==
  /\ red = NoRed
  /\ \E points \in SeqsUpTo(Points2D, MaxSamples) :
       red' = [fn |-> "tracking2D", empty |-> points = <<>>,
               input |-> Sampled2D(points),
               out |-> calculateTrackingMetrics2D(Sampled2D(points))]
  /\ UNCHANGED redFrame
AttentionMetricsStep ==
  /\ red = NoRed
  /\ \E responses \in SeqsUpTo(AttentionResponses, MaxSamples) :
       red' = [fn |-> "attention", empty |-> responses = <<>>,
               input |-> responses, out |-> calculateAttentionMetrics(responses)]
  /\ UNCHANGED redFrame
SpatialMetricsStep ==
  /\ red = NoRed
  /\ \E responses \in SeqsUpTo(SpatialResponses, MaxSamples) :
       red' = [fn |-> "spatial", empty |-> responses = <<>>,
               input |-> responses, out |-> calculateSpatialMetrics(responses)]
  /\ UNCHANGED redFrame
InterruptMetricsStep ==
  /\ red = NoRed
  /\ \E points \in SeqsUpTo(Points2D, MaxSamples),
        interrupts \in InterruptLists, responses \in InterruptResponseLists,
        baselineDuration \in BaselineDurations :
       red' = [fn |-> "interrupt", empty |-> points = <<>>,
               input |-> <<Sampled2D(points), interrupts, responses>>,
               out |-> InterruptMetricsOf(Sampled2D(points), interrupts,
                                          responses, baselineDuration)]
  /\ UNCHANGED redFrame
\* calculateMeanRecoveryTime on a longer run of samples: one interrupt at
\* 3000 ms, and count samples 100 ms apart from 4000 ms on, each on the
\* target or 0.3 away from it
MaxRecoverySamples == 11
RecoveryErrors == {0, 300}
RecoverySamples(errors) ==
  [i \in DOMAIN errors |->
     Sample2D(4000 + 100 * i, <<errors[i], 0>>, <<0, 0>>, <<0, 0>>)]
RecoveryTimeStep ==
  /\ red = NoRed
  /\ \E count \in (RecoveryWindow - 1)..MaxRecoverySamples,
        responses \in InterruptResponseLists,
        baselineRMSE \in {Fin(0), Fin(250)} :
       \E errors \in [1..count -> RecoveryErrors] :
         red' = [fn |-> "recovery", empty |-> FALSE,
                 input |-> [samples |-> RecoverySamples(errors),
                            interrupt |-> Interrupt(1, 3000),
                            responses |-> responses,
                            baselineRMSE |-> baselineRMSE],
                 out |-> calculateMeanRecoveryTime(RecoverySamples(errors),
                           <<Interrupt(1, 3000)>>, responses, baselineRMSE)]
  /\ UNCHANGED redFrame
InitRed ==
  /\ InitPage /\ InitModule /\ InitHist
  /\ aud = AudIdle("C", InitialDifficulty) /\ cost = NoCost /\ gen = NoGen
  /\ task = NoTask /\ trk = NoTrk /\ mt = NoMt
  /\ stimSeq = NoStim /\ mg = NoMg
  /\ red = NoRed
NextRed ==
  \/ TrackingMetricsStep
  \/ TrackingMetrics2DStep
  \/ AttentionMetricsStep
  \/ SpatialMetricsStep
  \/ InterruptMetricsStep
SpecRed == InitRed /\ [][NextRed]_vars
SpecRecovery == InitRed /\ [][RecoveryTimeStep]_vars

\* ========================================= mental rotation tasks
\* Rotations are in degrees, difficulty in hundredths.
NumShapes == 5
NumOptions == 4
TaskDifficulties == {30, 50, 80}
Option(rotation, isMirrored) == [rotation |-> rotation, isMirrored |-> isMirrored]
possibleRotations(difficulty) ==
  LET rotationStep == IF difficulty < 50 THEN 90 ELSE 45
  IN {i * rotationStep : i \in 0..((360 \div rotationStep) - 1)}
distractorPool(difficulty, targetRotation) ==
  {Option(rot, mirrored) : rot \in possibleRotations(difficulty),
                           mirrored \in BOOLEAN}
  \ {Option(targetRotation, FALSE)}
\* The orders in which the shuffled and sorted pool can hand out its first
\* three distractors.  Above difficulty 0.5 the comparator is a consistent
\* order that puts the mirrored shape at the target rotation first; at or
\* below 0.5 it is not an order (it answers -1 both ways for two unmirrored
\* options at other rotations), so the result of sort() is whatever the
\* engine makes of the shuffle.
Distractors(difficulty, targetRotation) ==
  LET pool == distractorPool(difficulty, targetRotation)
  IN {d \in [1..(NumOptions - 1) -> pool] :
        /\ \A i, j \in DOMAIN d : i # j => d[i] # d[j]
        /\ difficulty > 50 => d[1] = Option(targetRotation, TRUE)}
generateMentalRotationTask(difficulty, shapeIndex, quarter, correctIndex, distractors) ==
  LET referenceRotation == quarter * 90
      targetRotation == referenceRotation
      \* options before correctIndex take the distractors in order
      options == [i \in 0..(NumOptions - 1) |->
                    IF i = correctIndex THEN Option(targetRotation, FALSE)
                    ELSE distractors[IF i < correctIndex THEN i + 1 ELSE i]]
  IN [variant |-> "mental-rotation",
      stimulus |-> [shapeIndex |-> shapeIndex,
                    referenceRotation |-> referenceRotation],
      correctAnswer |-> correctIndex, options |-> options,
      difficulty |-> difficulty]
taskFrame == <<pageVars, modVars, tasks, histVars, aud, cost, gen, red, trk, mt, stimSeq, mg>>
\* one call; a later call does not depend on what an earlier one returned
GenerateSpatialTask ==
  /\ task = NoTask
  /\ \E difficulty \in TaskDifficulties, shapeIndex \in 0..(NumShapes - 1),
        quarter \in 0..3, correctIndex \in 0..(NumOptions - 1) :
       \E distractors \in Distractors(difficulty, quarter * 90) :
         task' = generateMentalRotationTask(difficulty, shapeIndex, quarter,
                                            correctIndex, distractors)
  /\ UNCHANGED taskFrame
InitTask ==
  /\ InitPage /\ InitModule /\ InitHist
  /\ aud = AudIdle("C", InitialDifficulty) /\ cost = NoCost
  /\ InitRest
SpecTask == InitTask /\ [][GenerateSpatialTask]_vars

\* ================================================= tracking game loops
\* One tracking component (Module A, Module B, Module E in its 1D baseline,
\* or Module G) with the clock it reads.  Times are in milliseconds,
\* normalised positions in thousandths, and a pixel position p is held as
\* p * 1000, so that all recorded positions share one unit.
MaxFrames == 3
TrkDurationMs == 40
\* performance.now() read twice in a row: the clock has or has not ticked
ClockTicks == {0, 1}
\* what update(dt) of the trial's generator returns
Targets1D == {<<-1000>>, <<0>>, <<1000>>}
Targets2D == {<<0, 0>>, <<1000, -1000>>}
\* InputSystem.getState().y
InputValues == {-1000, 0, 1000}
\* the mouse position in canvas pixels
MousePixels == {<<0, 0>>, <<400, 300>>, <<800, 600>>}
KeysPressed == {{}, {"a"}, {"d"}}
TrkModules == {"A", "B", "E", "G"}
TrkIdle(m) ==
  [module |-> m, now |-> 0, trialStartTime |-> 0, lastUpdateTime |-> 0,
   running |-> FALSE, trialModeRef |-> "idle", frames |-> 0, samples |-> <<>>,
   mouse |-> <<400, 300>>, keyboard1DPosition |-> 0, ended |-> 0]
TrkSample(timestamp, target, cursor) ==
  [timestamp |-> timestamp, targetPosition |-> target, cursorPosition |-> cursor]
Clamp1(v) == Max(-1000, Min(1000, v))
\* the body of each gameLoop once the trial has not yet run out
GameLoopA(s, elapsed, target, inputY) ==
  [s EXCEPT !.samples = Append(@, TrkSample(elapsed, target, <<inputY>>))]
GameLoopB(s, elapsed, target) ==
  LET normalizedX == (s.mouse[1] * 2000) \div 800 - 1000
      normalizedY == (s.mouse[2] * 2000) \div 600 - 1000
  IN [s EXCEPT !.samples = Append(@, TrkSample(elapsed, target,
                                <<Clamp1(normalizedX), Clamp1(normalizedY)>>))]
GameLoopE(s, elapsed, dt, target, keys) ==
  LET moved == s.keyboard1DPosition
               - (IF "a" \in keys THEN 2 * dt ELSE 0)
               + (IF "d" \in keys THEN 2 * dt ELSE 0)
  IN IF s.trialModeRef = "baseline-1d"
     THEN [s EXCEPT !.keyboard1DPosition = Clamp1(moved),
                    !.samples = Append(@, TrkSample(elapsed, target,
                                                    <<Clamp1(moved)>>))]
     ELSE s
GameLoopG(s, elapsed, target) ==
  LET targetX == ((target[1] + 1000) * 700) \div 2 + 50000
      targetY == ((target[2] + 1000) * 500) \div 2 + 50000
  IN [s EXCEPT !.samples = Append(@, TrkSample(elapsed, <<targetX, targetY>>,
                                <<s.mouse[1] * 1000, s.mouse[2] * 1000>>))]
\* gameLoop called at clock time now
GameLoop(s, now, target, inputY, keys) ==
  LET elapsed == now - s.trialStartTime
      dt == now - s.lastUpdateTime
      s1 == [s EXCEPT !.now = now, !.lastUpdateTime = now]
  IN IF elapsed >= TrkDurationMs
     THEN [s1 EXCEPT !.running = FALSE, !.ended = @ + 1]
     ELSE CASE s.module = "A" -> GameLoopA(s1, elapsed, target, inputY)
            [] s.module = "B" -> GameLoopB(s1, elapsed, target)
            [] s.module = "E" -> GameLoopE(s1, elapsed, dt, target, keys)
            [] s.module = "G" -> GameLoopG(s1, elapsed, target)
TargetsOf(m) == IF m \in {"A", "E"} THEN Targets1D ELSE Targets2D
trkFrame == <<pageVars, modVars, tasks, histVars, aud, cost, gen, red, task, mt, stimSeq, mg>>
\* startTrial (A, E), beginTrialAfterClick (B, G): the start time is read,
\* gameLoop is called in the same task, and React then commits the new
\* trial mode, whose effect copies it into trialModeRef
TrkStartTrial ==
  /\ ~trk.running /\ trk.ended = 0 /\ trk.samples = <<>>
  /\ \E tick \in ClockTicks, target \in TargetsOf(trk.module),
        inputY \in InputValues, keys \in KeysPressed :
       trk' = [GameLoop([trk EXCEPT !.trialStartTime = trk.now,
                                    !.lastUpdateTime = trk.now,
                                    !.running = TRUE],
                        trk.now + tick, target, inputY, keys)
                 EXCEPT !.trialModeRef = "baseline-1d"]
  /\ UNCHANGED trkFrame
\* a mousemove event on the canvas
TrkMouseMove ==
  /\ trk.running
  /\ \E mouse \in MousePixels : mouse # trk.mouse /\ trk' = [trk EXCEPT !.mouse = mouse]
  /\ UNCHANGED trkFrame
\* the frame requested by the previous gameLoop
TrkFrame ==
  /\ trk.running /\ trk.frames < MaxFrames
  /\ \E target \in TargetsOf(trk.module), inputY \in InputValues,
        keys \in KeysPressed :
       trk' = [GameLoop(trk, trk.now + FrameMs, target, inputY, keys)
                 EXCEPT !.frames = @ + 1]
  /\ UNCHANGED trkFrame
InitTrk ==
  /\ InitPage /\ InitModule /\ InitHist
  /\ aud = AudIdle("C", InitialDifficulty) /\ cost = NoCost
  /\ gen = NoGen /\ red = NoRed /\ task = NoTask /\ mt = NoMt
  /\ stimSeq = NoStim /\ mg = NoMg
  /\ \E m \in TrkModules : trk = TrkIdle(m)
NextTrk == TrkStartTrial \/ TrkMouseMove \/ TrkFrame
SpecTrk == InitTrk /\ [][NextTrk]_vars

\* ================================================= Modules E and F: the
\* baselines and the composite trial
\* One mounted component (Module E or Module F).  A baseline is the RMSE or
\* d-prime of its metrics record, or Null while the state holds null.  The
\* functions of one render see the baseline state of that render: closure is
\* what the functions that drive the running trial see.  The click handler is
\* registered by an effect with an empty dependency list, so it and every
\* function it calls belong to the first render.
MaxComposite == 2
Null == [k |-> "null", v |-> 0]
NoBaselines == [b1D |-> Null, b2D |-> Null, bAudio |-> Null]
MtModules == {"E", "F"}
MtMounted(m) ==
  [module |-> m, trialMode |-> "idle", baselines |-> NoBaselines,
   closure |-> NoBaselines, loop |-> FALSE, timer |-> "none", saved |-> <<>>,
   notified |-> 0, thrown |-> 0, started |-> 0, ended |-> 0,
   atStart |-> NoBaselines]
\* the baselines the first render saw: useState(null)
FirstRender == NoBaselines
\* a loop (gameLoop, motorGameLoop, presentNextStimulus) is scheduled
MtRunning(s) == s.loop
\* ModuleE.stopTrial, called by the loop whose functions see closure
StopTrialE(s0, m1D, m2D) ==
  LET s == [s0 EXCEPT !.loop = FALSE] IN
  CASE s.trialMode = "baseline-1d" ->
         [s EXCEPT !.baselines.b1D = m1D, !.timer = "baseline-2d"]
    [] s.trialMode = "baseline-2d" ->
         [s EXCEPT !.baselines.b2D = m2D, !.trialMode = "idle"]
    [] s.trialMode = "dual-task" ->
         IF s.closure.b1D # Null /\ s.closure.b2D # Null
         THEN [s EXCEPT !.saved = Append(@, CalculateMultitaskMetrics(
                                     s.closure.b1D, s.closure.b2D, m1D, m2D)),
                        !.notified = @ + 1, !.ended = @ + 1,
                        !.trialMode = "idle"]
         ELSE [s EXCEPT !.ended = @ + 1, !.trialMode = "idle"]
\* ModuleF.stopTrial; reading .rmse of a null baseline throws, and the
\* promise of stopTrial is rejected before createTrial is reached
StopTrialF(s0, m1D, m2D, mAudio) ==
  LET s == [s0 EXCEPT !.loop = FALSE] IN
  CASE s.trialMode = "baseline-1d" ->
         [s EXCEPT !.baselines.b1D = m1D, !.timer = "baseline-2d"]
    [] s.trialMode = "baseline-2d" ->
         [s EXCEPT !.baselines.b2D = m2D, !.timer = "baseline-audio"]
    [] s.trialMode = "baseline-audio" ->
         [s EXCEPT !.baselines.bAudio = mAudio, !.trialMode = "idle"]
    [] s.trialMode = "triple-task" ->
         IF s.closure.b1D = Null \/ s.closure.b2D = Null
            \/ s.closure.bAudio = Null
         THEN [s EXCEPT !.thrown = @ + 1, !.ended = @ + 1]
         ELSE [s EXCEPT !.saved = Append(@, CalculateTripleTaskMetrics(
                                     m1D, m2D, mAudio, s.closure.b1D,
                                     s.closure.b2D, s.closure.bAudio)),
                        !.notified = @ + 1, !.ended = @ + 1,
                        !.trialMode = "idle"]
mtFrame == <<pageVars, modVars, tasks, histVars, aud, cost, gen, red, task, trk, stimSeq, mg>>
\* "Start Baseline": ModuleE.handleStartBaseline, ModuleF.startBaseline
MtStartBaseline ==
  /\ mt.trialMode = "idle"
  /\ mt.module = "F" => mt.baselines.b1D = Null
  /\ mt' = IF mt.module = "F"
           THEN [mt EXCEPT !.baselines = NoBaselines, !.closure = mt.baselines,
                           !.loop = TRUE, !.trialMode = "baseline-1d"]
           ELSE IF mt.baselines.b1D = Null
           THEN [mt EXCEPT !.closure = mt.baselines, !.loop = TRUE,
                           !.trialMode = "baseline-1d"]
           ELSE IF mt.baselines.b2D = Null
           THEN [mt EXCEPT !.trialMode = "ready-2d"]
           ELSE [mt EXCEPT !.baselines.b1D = Null, !.baselines.b2D = Null,
                           !.closure = mt.baselines, !.loop = TRUE,
                           !.trialMode = "baseline-1d"]
  /\ UNCHANGED mtFrame
\* the loop finds the trial's duration over and calls stopTrial
MtTimedEnd ==
  /\ MtRunning(mt)
  /\ \E m1D \in RmseValues, m2D \in RmseValues, mAudio \in DPrimeValues :
       mt' = IF mt.module = "E" THEN StopTrialE(mt, m1D, m2D)
             ELSE StopTrialF(mt, m1D, m2D, mAudio)
  /\ UNCHANGED mtFrame
\* the 1.5 s timer set by stopTrial: startTrial('baseline-2d'),
\* startBaseline2D, or startBaselineAudio with its countdown
MtTimer ==
  /\ mt.timer # "none"
  /\ mt' = IF mt.timer = "baseline-2d"
           THEN [mt EXCEPT !.timer = "none", !.trialMode = "ready-2d"]
           ELSE [mt EXCEPT !.timer = "none", !.loop = TRUE,
                           !.trialMode = "baseline-audio"]
  /\ UNCHANGED mtFrame
\* the render enables "Start Dual-Task" (Module E)
canStartDualTask_IdleOnly(s) == s.trialMode = "idle"
canStartDualTask(s) ==
  /\ s.baselines.b1D # Null /\ s.baselines.b2D # Null
  /\ s.trialMode = "idle"
\* the render enables "Start Triple-Task" (Module F)
canStartTripleTask(s) ==
  /\ s.trialMode = "idle"
  /\ s.baselines.b1D # Null /\ s.baselines.b2D # Null
  /\ s.baselines.bAudio # Null
\* "Start Dual-Task" (ModuleE.handleStartDualTask) and "Start Triple-Task"
\* (ModuleF.startTripleTask with its countdown), enabled by the render once
\* every baseline is recorded
MtStartComposite ==
  /\ mt.started < MaxComposite
  /\ IF mt.module = "E" THEN canStartDualTask(mt) ELSE canStartTripleTask(mt)
  /\ mt' = [mt EXCEPT !.trialMode = IF mt.module = "E" THEN "ready-dual"
                                    ELSE "ready-triple",
                      !.started = @ + 1, !.atStart = mt.baselines]
  /\ UNCHANGED mtFrame
\* handleCanvasClick on the cursor: beginTrialAfterClick, beginBaseline2D or
\* beginTripleTask of the first render start the loop
MtCanvasClick ==
  /\ mt.trialMode \in {"ready-2d", "ready-dual", "ready-triple"}
  /\ mt' = [mt EXCEPT !.closure = FirstRender, !.loop = TRUE,
                      !.trialMode = CASE mt.trialMode = "ready-2d" -> "baseline-2d"
                                      [] mt.trialMode = "ready-dual" -> "dual-task"
                                      [] mt.trialMode = "ready-triple" -> "triple-task"]
  /\ UNCHANGED mtFrame
InitMt ==
  /\ InitPage /\ InitModule /\ InitHist
  /\ aud = AudIdle("C", InitialDifficulty) /\ cost = NoCost
  /\ gen = NoGen /\ red = NoRed /\ task = NoTask /\ trk = NoTrk
  /\ stimSeq = NoStim /\ mg = NoMg
  /\ \E m \in MtModules : mt = MtMounted(m)
NextMt ==
  MtStartBaseline \/ MtTimedEnd \/ MtTimer \/ MtStartComposite \/ MtCanvasClick
SpecMt == InitMt /\ [][NextMt]_vars

\* ================================================= stimulus sequences
\* One call of generateStimulusSequence with a difficulty the controller can
\* hold and a trial duration.
MaxSeqDurationMs == 4000
SeqDifficulties == {MinDifficulty, 50, MaxDifficulty}
SeqDurations == {2000, MaxSeqDurationMs}
stimFrame == <<pageVars, modVars, tasks, histVars, aud, cost, gen, red, task, trk, mt, mg>>
StimulusSequenceStep ==
  /\ stimSeq = NoStim
  /\ \E d \in SeqDifficulties, durationMs \in SeqDurations :
       \E sequence \in GenerateStimulusSequence(d, durationMs) :
         stimSeq' = [fn |-> "sequence", difficulty |-> d,
                     durationMs |-> durationMs, out |-> sequence]
  /\ UNCHANGED stimFrame
InitStim ==
  /\ InitPage /\ InitModule /\ InitHist
  /\ aud = AudIdle("C", InitialDifficulty) /\ cost = NoCost
  /\ gen = NoGen /\ red = NoRed /\ task = NoTask /\ trk = NoTrk /\ mt = NoMt
  /\ mg = NoMg /\ stimSeq = NoStim
SpecStim == InitStim /\ [][StimulusSequenceStep]_vars

(***************************************************************************)
(* Module G: interrupt handling under load (src/src/modules/ModuleG.tsx).  *)
(* The canvas click and the key handler are registered once and read the   *)
(* refs trialStateRef and currentInterruptRef.  trialStateRef is written   *)
(* directly by the start timer; otherwise both refs are written only by    *)
(* the effects that run after React has rendered a state change.  A state  *)
(* change made inside a click or key handler is rendered before the next   *)
(* event; one made inside a timer or animation-frame callback is rendered  *)
(* in a later task, so a key event can be handled between the callback     *)
(* and the effect (MgEffect).                                              *)
(*                                                                         *)
(* Timers are records [id, fn, interrupt]: fn "start" is the 3-2-1         *)
(* countdown followed by the 100 ms delay, "show" the timer set by         *)
(* scheduleNextInterrupt, "miss" the timer set by showInterrupt.  Time is  *)
(* abstracted to the order in which timers fire (MgDue).                   *)
(***************************************************************************)
MaxClicks == 2
MaxInterrupts == 2
MaxGTrials == 2

MgInterrupt(id) == [k |-> "interrupt", v |-> id]

MgResponse(id, correct, missed) == [interruptId |-> id, correct |-> correct, missed |-> missed]

MgMounted(n) ==
  [trialState |-> "idle", trialStateRef |-> "idle",
   currentInterrupt |-> Null, currentInterruptRef |-> Null,
   sequenceLength |-> n, currentInterruptIndex |-> 0,
   interruptResponses |-> <<>>, interruptTimeoutId |-> 0,
   timers |-> {}, nextTimer |-> 1, shown |-> {},
   countdowns |-> 0, loops |-> 0, chains |-> 0, trials |-> 0, ended |-> FALSE]

MgTimer(id, fn, i) == [id |-> id, fn |-> fn, interrupt |-> i]

MgRank(t) == IF t.fn = "start" THEN 0 ELSE t.interrupt + 1

\* Firing order of the pending timers.  The countdown (3100 ms) ends before
\* the first interrupt (appearTime >= 5000), and every timer of interrupt i
\* fires before any timer of interrupt i + 1, because the intervals
\* (>= 2000 ms) are longer than the response window (<= 1500 ms).  Two
\* timers of the same kind for the same interrupt fire in creation order.
MgDue(t) ==
  \A u \in mg.timers :
     /\ MgRank(u) >= MgRank(t)
     /\ (u.fn = t.fn /\ MgRank(u) = MgRank(t)) => u.id >= t.id

\* Whether React has rendered every state change and run the ref effects.
MgRendered(s) ==
  s.trialStateRef = s.trialState /\ s.currentInterruptRef = s.currentInterrupt

\* scheduleNextInterrupt: nothing when the sequence is exhausted, else a
\* "show" timer for interrupts[currentInterruptIndex], remembered in
\* interruptTimeoutId.
scheduleNextInterrupt(s) ==
  IF s.currentInterruptIndex >= s.sequenceLength THEN s
  ELSE [s EXCEPT !.timers = @ \cup {MgTimer(s.nextTimer, "show", s.currentInterruptIndex)},
                 !.interruptTimeoutId = s.nextTimer,
                 !.nextTimer = @ + 1]

\* clearTimeout(interruptTimeoutId.current)
MgClearTimeout(s) ==
  [s EXCEPT !.timers = {t \in @ : t.id # s.interruptTimeoutId}]

mgFrame == <<pageVars, modVars, tasks, histVars, aud, cost, gen, red, task, trk, mt, stimSeq>>

\* startTrial ("Start Trial" when idle, "Run Another Trial" when completed)
MgStartTrial ==
  /\ mg # NoMg
  /\ MgRendered(mg)
  /\ mg.trialState \in {"idle", "completed"}
  /\ mg.trials < MaxGTrials
  /\ \E n \in 1..MaxInterrupts :
       mg' = [mg EXCEPT !.trialState = "ready", !.trialStateRef = "ready",
                        !.currentInterrupt = Null, !.currentInterruptRef = Null,
                        !.interruptResponses = <<>>, !.currentInterruptIndex = 0,
                        !.sequenceLength = n, !.shown = {},
                        !.countdowns = 0, !.loops = 0, !.chains = 0,
                        !.trials = @ + 1, !.ended = FALSE]
  /\ UNCHANGED mgFrame

\* handleCanvasClick within 50 px of the crosshair -> beginTrialAfterClick
MgCanvasClick ==
  /\ mg # NoMg
  /\ mg.trialStateRef = "ready"
  /\ mg.countdowns < MaxClicks
  /\ mg' = [mg EXCEPT !.countdowns = @ + 1,
                      !.timers = @ \cup {MgTimer(mg.nextTimer, "start", 0)},
                      !.nextTimer = @ + 1]
  /\ UNCHANGED mgFrame

\* The countdown's final callback: the trial starts, gameLoop() and
\* scheduleNextInterrupt() are called.
MgStartTimer ==
  /\ mg # NoMg
  /\ MgRendered(mg)
  /\ \E t \in mg.timers :
       /\ t.fn = "start"
       /\ MgDue(t)
       /\ LET s1 == [mg EXCEPT !.timers = @ \ {t},
                               !.trialState = "running", !.trialStateRef = "running",
                               !.loops = @ + 1,
                               !.chains = @ + 1]
          IN mg' = scheduleNextInterrupt(s1)
  /\ UNCHANGED mgFrame

\* showInterrupt(interrupt), called by the timer of scheduleNextInterrupt
MgShowTimer ==
  /\ mg # NoMg
  /\ MgRendered(mg)
  /\ \E t \in mg.timers :
       /\ t.fn = "show"
       /\ MgDue(t)
       /\ mg' = [mg EXCEPT !.timers = (@ \ {t}) \cup {MgTimer(mg.nextTimer, "miss", t.interrupt)},
                           !.currentInterrupt = MgInterrupt(t.interrupt),
                           !.shown = @ \cup {t.interrupt},
                           !.interruptTimeoutId = mg.nextTimer,
                           !.nextTimer = @ + 1]
  /\ UNCHANGED mgFrame

\* handleInterruptMiss(interrupt)
handleInterruptMiss(s, id) ==
  scheduleNextInterrupt(
    [s EXCEPT !.interruptResponses = Append(@, MgResponse(id, FALSE, TRUE)),
              !.currentInterrupt = Null,
              !.currentInterruptIndex = @ + 1])

\* The miss timer set by showInterrupt
MgMissTimer ==
  /\ mg # NoMg
  /\ MgRendered(mg)
  /\ \E t \in mg.timers :
       /\ t.fn = "miss"
       /\ MgDue(t)
       /\ LET s1 == [mg EXCEPT !.timers = @ \ {t}]
          IN mg' = IF mg.currentInterruptRef = MgInterrupt(t.interrupt)
                   THEN handleInterruptMiss(s1, t.interrupt)
                   ELSE s1
  /\ UNCHANGED mgFrame

\* handleInterruptResponse(keyPressed); the state change is rendered, and
\* the ref effects run, before the next event.
handleInterruptResponse(s, correct) ==
  LET s1 == [s EXCEPT !.interruptResponses =
                          Append(@, MgResponse(s.currentInterruptRef.v, correct, FALSE)),
                      !.currentInterrupt = Null, !.currentInterruptRef = Null,
                      !.trialStateRef = s.trialState]
      s2 == MgClearTimeout(s1)
  IN scheduleNextInterrupt([s2 EXCEPT !.currentInterruptIndex = @ + 1])

\* handleKeyDown with a key '1'..'4'
MgKeyDown ==
  /\ mg # NoMg
  /\ mg.trialStateRef = "running"
  /\ mg.currentInterruptRef # Null
  /\ \E correct \in BOOLEAN : mg' = handleInterruptResponse(mg, correct)
  /\ UNCHANGED mgFrame

\* React renders the pending state change; the effects copy trialState and
\* currentInterrupt into their refs.
MgEffect ==
  /\ mg # NoMg
  /\ ~MgRendered(mg)
  /\ mg' = [mg EXCEPT !.trialStateRef = mg.trialState,
                      !.currentInterruptRef = mg.currentInterrupt]
  /\ UNCHANGED mgFrame

\* gameLoop at elapsedTime >= trialDuration -> endTrial.  Every timer of the
\* sequence is due before the end of the trial.
MgTimedEnd ==
  /\ mg # NoMg
  /\ MgRendered(mg)
  /\ mg.trialStateRef = "running"
  /\ mg.loops > 0
  /\ mg.timers = {}
  /\ mg' = [MgClearTimeout(mg) EXCEPT !.trialState = "completed", !.ended = TRUE]
  /\ UNCHANGED mgFrame

InitMg ==
  /\ InitPage /\ InitModule /\ InitHist
  /\ aud = AudIdle("C", InitialDifficulty)
  /\ cost = NoCost /\ gen = NoGen /\ red = NoRed /\ task = NoTask
  /\ trk = NoTrk /\ mt = NoMt /\ stimSeq = NoStim
  /\ \E n \in 1..MaxInterrupts : mg = MgMounted(n)

NextMg ==
  \/ MgStartTrial
  \/ MgCanvasClick
  \/ MgStartTimer
  \/ MgShowTimer
  \/ MgMissTimer
  \/ MgKeyDown
  \/ MgEffect
  \/ MgTimedEnd

SpecMg == InitMg /\ [][NextMg]_vars

TypeOK ==
  /\ currentDifficulty \in 0..200
  /\ Len(tasks) <= MaxTasks
  /\ trialNo \in 0..MaxTrials

\* ================================================================ claims

\* C1: starting from 0.3, after any sequence of completed trials with
\* arbitrary metrics (RMSE 10000, accuracy -5 or 10000 included) the
\* difficulty held by the page lies in [0.1, 1.0].
C1_DifficultyInRange == currentDifficulty >= 10 /\ currentDifficulty <= 100
\* the floor was reached and an extreme RMSE was then clamped at it
C1_Witness ==
  /\ ctl.n = 1 /\ ctl.trial.kind = "tracking" /\ ctl.trial.rmse = 10000000
  /\ ctl.before = 10 /\ currentDifficulty = 10

\* C2: every completed trial (stopTrial ran, nothing of it is pending any
\* more) had the controller invoked exactly once.
TrialSettled(t) ==
  /\ stops[t] > 0
  /\ \A i \in DOMAIN tasks : tasks[i].trial.no # t
  /\ \A l \in loops : l.trial # t
C2_ControllerOncePerTrial ==
  \A t \in 1..MaxTrials : TrialSettled(t) => invoked[t] = 1

\* C5: when the controller runs for a tracking trial, the new difficulty is
\* clamp(d + 0.05) if RMSE < 0.3/(1+d) and clamp(d - 0.05) otherwise, d
\* being the difficulty the page holds immediately before.
ThresholdRule(d, rmse) ==
  IF rmse * (100 + d) < 30000 THEN Min(100, d + 5) ELSE Max(10, d - 5)
C5_TrackingRule ==
  [][\A i \in 1..MaxTasks :
       (UpdateModuleRunDone(i) /\ tasks[i].trial.kind = "tracking")
         => currentDifficulty' = ThresholdRule(currentDifficulty, tasks[i].trial.rmse)]_vars

InBand(trial) ==
  /\ trial.kind = "spatial"
  /\ trial.accNum * 100 > 70 * trial.accDen
  /\ trial.accNum * 100 < 85 * trial.accDen
C3_OneResponsePerStimulus ==
  aud.reducerCalls > 0 =>
    \A k \in 1..aud.reducerIndex :
      Cardinality({i \in DOMAIN aud.reducerInput : aud.reducerInput[i].stim = k}) = 1

\* C4: once the reducer has been invoked for a trial, nothing more is
\* appended to that trial's response buffer, also not while the trial
\* record is being saved.
C4_BufferClosed ==
  [][(aud.reducerCalls > 0 /\ aud'.reducerCalls > 0)
       => aud'.responses = aud.responses]_vars

\* C7: every Response recorded with responded = true has a reaction time
\* inside the response window, min <= reactionTime <= max.
C7_RespondedInWindow ==
  \A i \in DOMAIN aud.responses :
    aud.responses[i].responded =>
      /\ aud.responses[i].rt >= aud.responseWindow.min
      /\ aud.responses[i].rt <= aud.responseWindow.max
\* a key pressed 1 ms after the window closed was disregarded and the
\* reducer was given a non-response for that stimulus
C7_Witness ==
  /\ aud.lastKey = aud.responseWindow.max + 1
  /\ aud.reducerCalls = 1
  /\ \E i \in DOMAIN aud.reducerInput :
       aud.reducerInput[i] = NoResponse(aud.currentStimulusIndex)
  /\ \A i \in DOMAIN aud.reducerInput :
       aud.reducerInput[i].stim = aud.currentStimulusIndex
         => ~aud.reducerInput[i].responded

\* C10 as claimed: in Module C and in Module F the window that validates key
\* presses is min = 100 ms, max = 1200 - 600 d ms.
C10_Window600 ==
  aud.isTrialRunning =>
    aud.responseWindow = [min |-> 100, max |-> 1200 - 6 * aud.difficulty]
\* C10 as amended: min = 100 ms in both; max = 1200 - 400 d ms in Module C
\* and 1200 - 600 d ms in Module F.
C10_WindowPerModule ==
  aud.isTrialRunning =>
    /\ aud.responseWindow.min = 100
    /\ aud.module = "C" => aud.responseWindow.max = 1200 - 4 * aud.difficulty
    /\ aud.module = "F" => aud.responseWindow.max = 1200 - 6 * aud.difficulty
\* Module C accepted a key press later than 1200 - 600 d ms
C10_Witness ==
  /\ aud.module = "C" /\ aud.isTrialRunning
  /\ \E i \in DOMAIN aud.responses :
       /\ aud.responses[i].responded
       /\ aud.responses[i].rt > 1200 - 6 * aud.difficulty

\* C6: every ratio-based cost is 0, not NaN and not an infinity, when its
\* baseline denominator is 0: the per-task dual-task costs, dualMotorCost,
\* auditoryCost and interferenceCost.
C6_ZeroDenominatorGivesZero ==
  /\ (cost.fn = "multitask" /\ cost.baseline1D = Fin(0)) => cost.cost1D = Fin(0)
  /\ (cost.fn = "multitask" /\ cost.baseline2D = Fin(0)) => cost.cost2D = Fin(0)
  /\ (cost.fn = "triple" /\ cost.dualBaselineRMSE = Fin(0))
       => cost.dualMotorCost = Fin(0)
  /\ (cost.fn = "triple" /\ cost.baselineDPrime = Fin(0))
       => cost.auditoryCost = Fin(0)
  /\ (cost.fn = "interrupt" /\ cost.baselineRMSE = Fin(0))
       => cost.interferenceCost = Fin(0)

\* C11: for every generator kind, every difficulty in [0, 1] and every
\* sequence of update(dt) calls, each position returned by update() and by
\* getPosition() lies within the configured bounds on every axis.
C11_PositionInBounds ==
  \A i \in DOMAIN gen.out : gen.out[i] >= BoundsMin /\ gen.out[i] <= BoundsMax
\* an update carried the target past a wall and returned the wall
C11_Witness ==
  /\ gen.op = "update" /\ gen.in[1] = 2000
  /\ \E i \in DOMAIN gen.out : gen.out[i] \in {BoundsMin, BoundsMax}

\* C17: getPosition() leaves the generator's state as it was, returns the
\* same value on every call in a row, and the update(dt) after it gives what
\* it would have given without the calls.
C17_GetPositionIsPure ==
  [][/\ gen'.op = "get" => gen'.s = gen.s
     /\ (gen.op = "get" /\ gen'.op = "get") => gen'.out = gen.out
     /\ (gen.op = "get" /\ gen'.op = "update") =>
          /\ gen'.s = UpdateOf(gen.kind, gen.held, gen'.in).s
          /\ gen'.out = UpdateOf(gen.kind, gen.held, gen'.in).v]_vars
\* getPosition was called twice on a sinusoid that had been advanced
C17_Witness ==
  gen.kind = "sinusoid" /\ gen.op = "get" /\ gen.gets = 2 /\ gen.n > 0

\* C12: every metrics reducer (1D tracking, 2D tracking, attention, spatial,
\* interrupt) called with empty input returns its all-zero record, with
\* empty lists, and does not throw.
C12_EmptyInputGivesZeroRecord ==
  (red.fn # "none" /\ red.empty) =>
     red.out = CASE red.fn = "tracking" -> EmptyTrackingMetrics
                 [] red.fn = "tracking2D" -> EmptyTrackingMetrics2D
                 [] red.fn = "attention" -> EmptyAttentionMetrics
                 [] red.fn = "spatial" -> EmptySpatialMetrics
                 [] red.fn = "interrupt" -> createEmptyMetrics
\* the interrupt reducer was given interrupts and responses but no sample
C12_Witness ==
  /\ red.fn = "interrupt" /\ red.empty
  /\ red.input[2] # <<>> /\ red.input[3] # <<>>
  /\ red.out.totalInterrupts = 0

\* C13: adaptive difficulty applies to every module: after a completed trial
\* of any module the controller moves the difficulty by one step of 0.05
\* according to that trial's performance (up above the 70-85% band, down
\* below it, within [0.1, 1.0]); no module's trials are ignored.
C13_EveryModuleAdjusts ==
  ctl.n = 1 =>
    /\ ctl.trial.kind = "tracking" =>
          ctl.after \in {Min(MaxDifficulty, ctl.before + DifficultyStep),
                         Max(MinDifficulty, ctl.before - DifficultyStep)}
    /\ (/\ ctl.trial.kind \in {"spatial", "attention"}
        /\ SpatialSuccess(ctl.trial.accNum, ctl.trial.accDen)) =>
          ctl.after = Min(MaxDifficulty, ctl.before + DifficultyStep)
    /\ (/\ ctl.trial.kind \in {"spatial", "attention"}
        /\ SpatialStruggling(ctl.trial.accNum, ctl.trial.accDen)) =>
          ctl.after = Max(MinDifficulty, ctl.before - DifficultyStep)

\* C14: in every generated mental-rotation task the correct option is the
\* unmirrored shape at a rotation that differs from the reference rotation
\* by 90, 180 or 270 degrees.
C14_CorrectNeedsRotation ==
  task.variant = "mental-rotation" =>
    LET correct == task.options[task.correctAnswer]
    IN /\ ~correct.isMirrored
       /\ (correct.rotation - task.stimulus.referenceRotation) % 360
            \in {90, 180, 270}

\* C15: every recorded tracking sample, 1D or 2D and in every module, has
\* its target position and its cursor position within [-1, 1] on each axis.
C15_SamplesInUnitRange ==
  \A i \in DOMAIN trk.samples :
    /\ \A a \in DOMAIN trk.samples[i].targetPosition :
         /\ trk.samples[i].targetPosition[a] >= -1000
         /\ trk.samples[i].targetPosition[a] <= 1000
    /\ \A a \in DOMAIN trk.samples[i].cursorPosition :
         /\ trk.samples[i].cursorPosition[a] >= -1000
         /\ trk.samples[i].cursorPosition[a] <= 1000

\* C16: in every trial the recorded sample sequence has non-decreasing
\* timestamps and its first sample has timestamp 0.
C16_TimestampsFromZero ==
  /\ \A i \in DOMAIN trk.samples :
       i > 1 => trk.samples[i - 1].timestamp <= trk.samples[i].timestamp
  /\ trk.samples # <<>> => trk.samples[1].timestamp = 0

\* C19: in Module E a dual-task trial started after both baselines were
\* recorded and run to its timed end is persisted exactly once, with
\* multitask metrics computed from those baselines, and onTrialComplete is
\* called for it.
C19_DualTaskTrialPersisted ==
  mt.module = "E" =>
    /\ Len(mt.saved) = mt.ended
    /\ mt.notified = mt.ended
    /\ \A i \in DOMAIN mt.saved :
         /\ mt.saved[i].baseline1D = mt.atStart.b1D
         /\ mt.saved[i].baseline2D = mt.atStart.b2D

\* C20: in Module F, when a triple-task trial ends, stopTrial reads three
\* baseline records that are not null, computes the triple-task metrics
\* without throwing and persists the trial exactly once.
C20_TripleTaskTrialPersisted ==
  mt.module = "F" =>
    /\ mt.thrown = 0
    /\ Len(mt.saved) = mt.ended
    /\ (mt.trialMode = "triple-task" =>
          mt.closure.b1D # Null /\ mt.closure.b2D # Null /\ mt.closure.bAudio # Null)

\* C18: when a trial is reported through onTrialComplete for the first time
\* while its module run stays the active one, the run's trials list becomes
\* the list it was with that trial appended: no earlier trial is dropped or
\* overwritten, and the list is in completion order.
C18_TrialsAppended ==
  [][\A n \in 1..MaxTrials :
       (/\ invoked[n] = 0 /\ invoked'[n] = 1
        /\ activeModuleRun # NoRun
        /\ activeModuleRun'.id = activeModuleRun.id)
       => activeModuleRun'.trials = Append(activeModuleRun.trials, n)]_vars

\* C28: overshootCount of a 1D sample sequence is the number of adjacent
\* sample pairs at which the signed error goes from positive to negative or
\* from negative to positive and the error after the reversal is larger in
\* magnitude than the on-target threshold.
C28_OvershootIsSignReversal ==
  red.fn = "tracking" =>
    LET samples == red.input
        error(i) == samples[i].targetPosition - samples[i].cursorPosition
        reversals == {i \in 2..Len(samples) :
                        /\ \/ error(i - 1) > 0 /\ error(i) < 0
                           \/ error(i - 1) < 0 /\ error(i) > 0
                        /\ Abs(error(i)) > TargetThreshold1D}
    IN red.out.overshootCount = Cardinality(reversals)

\* C29 as stated: for N > 0 interrupts the interrupt reducer returns
\* interruptAccuracy = correct/N, hitRate = (correct+incorrect)/N, missRate =
\* missed/N and errorRate = incorrect/N, whatever the samples are.
C29_RatesOverInterrupts ==
  (red.fn = "interrupt" /\ Len(red.input[2]) > 0) =>
    LET responses == red.input[3]
        N == Len(red.input[2])
        correct == Cardinality({i \in DOMAIN responses :
                      responses[i].correct /\ ~responses[i].missed})
        incorrect == Cardinality({i \in DOMAIN responses :
                        ~responses[i].correct /\ ~responses[i].missed})
        missed == Cardinality({i \in DOMAIN responses : responses[i].missed})
    IN /\ red.out.interruptAccuracy = Fin((correct * 1000) \div N)
       /\ red.out.interruptHitRate = Fin(((correct + incorrect) * 1000) \div N)
       /\ red.out.interruptMissRate = Fin((missed * 1000) \div N)
       /\ red.out.interruptErrorRate = Fin((incorrect * 1000) \div N)
\* C29 amended: the four rates are those quotients when the trial has at
\* least one tracking sample; without samples the reducer returns the zero
\* record.
C29_RatesOverInterruptsWithSamples ==
  (red.fn = "interrupt" /\ Len(red.input[2]) > 0) =>
    LET responses == red.input[3]
        N == Len(red.input[2])
        correct == Cardinality({i \in DOMAIN responses :
                      responses[i].correct /\ ~responses[i].missed})
        incorrect == Cardinality({i \in DOMAIN responses :
                        ~responses[i].correct /\ ~responses[i].missed})
        missed == Cardinality({i \in DOMAIN responses : responses[i].missed})
    IN IF Len(red.input[1]) = 0 THEN red.out = createEmptyMetrics
       ELSE /\ red.out.interruptAccuracy = Fin((correct * 1000) \div N)
            /\ red.out.interruptHitRate = Fin(((correct + incorrect) * 1000) \div N)
            /\ red.out.interruptMissRate = Fin((missed * 1000) \div N)
            /\ red.out.interruptErrorRate = Fin((incorrect * 1000) \div N)
C29_Witness ==
  /\ red.fn = "interrupt" /\ Len(red.input[1]) > 0 /\ Len(red.input[2]) = 2
  /\ red.out.interruptAccuracy = Fin(500) /\ red.out.interruptMissRate = Fin(500)

\* C24: for a response that was not missed, the recovery time is the offset
\* from the search start (appear time + response time) to the first sample
\* of the first window of 10 consecutive later samples whose RMSE is at most
\* 1.2 x baselineRMSE, every window of 10 samples in the data being examined;
\* the response contributes no value only if no window qualifies.
C24_EveryWindowExamined ==
  (/\ red.fn = "recovery" /\ red.input.responses # <<>>
   /\ ~red.input.responses[1].missed) =>
    LET searchStartTime == red.input.interrupt.appearTime
                           + red.input.responses[1].responseTime
        after(s) == s.timestamp > searchStartTime
        post == SelectSeq(red.input.samples, after)
        windows == {i \in 1..(Len(post) - RecoveryWindow + 1) :
                      calculateRMSE(SubSeq(post, i, i + RecoveryWindow - 1)).v * 10
                        <= red.input.baselineRMSE.v * 12}
        first == CHOOSE i \in windows : \A j \in windows : i <= j
    IN IF windows = {} THEN red.out = Fin(0)
       ELSE red.out = Fin(post[first].timestamp - searchStartTime)

\* C27: every generated auditory stimulus sequence has its first stimulus
\* at 500 ms, strictly increasing timestamps, and every timestamp strictly
\* below the total duration.
C27_SequenceSchedule ==
  stimSeq.fn = "sequence" =>
    /\ stimSeq.out # <<>> /\ stimSeq.out[1] = 500
    /\ \A i \in DOMAIN stimSeq.out :
         /\ stimSeq.out[i] < stimSeq.durationMs
         /\ i > 1 => stimSeq.out[i - 1] < stimSeq.out[i]
C27_Witness ==
  /\ stimSeq.fn = "sequence" /\ stimSeq.difficulty = MaxDifficulty
  /\ Len(stimSeq.out) >= 4

\* C30: in Modules E and F the composite trial (dual-task in E, triple-task
\* in F) is started only when no trial is in progress and every required
\* baseline has been recorded (1D and 2D for E; 1D, 2D and audio for F), and
\* the baselines stay recorded while it waits for the click and runs.
C30_CompositeNeedsBaselines ==
  [][/\ mt.module # "none" /\ mt'.started > mt.started =>
          /\ mt.trialMode = "idle" /\ ~mt.loop /\ mt.timer = "none"
          /\ mt.baselines.b1D # Null /\ mt.baselines.b2D # Null
          /\ mt.module = "F" => mt.baselines.bAudio # Null
     /\ (/\ mt.module # "none"
         /\ mt'.trialMode \in {"ready-dual", "dual-task",
                               "ready-triple", "triple-task"}) =>
          /\ mt'.baselines.b1D # Null /\ mt'.baselines.b2D # Null
          /\ mt'.module = "F" => mt'.baselines.bAudio # Null]_vars
C30_Witness ==
  /\ mt.module = "F" /\ mt.started = 1 /\ mt.trialMode = "triple-task"
  /\ mt.baselines.bAudio # Null

\* C26: a completed Module D trial holds exactly 15 recorded responses, one
\* for each task index 0..14 in turn (a second click on an answer before the
\* next task is shown records nothing), and endTrial is called once for it.
C26_OneResponsePerTask ==
  /\ \A i \in DOMAIN dResp.indices : dResp.indices[i] = i - 1
  /\ dResp.n = Len(dResp.indices) /\ dResp.n <= TasksPerTrial
  /\ \A i \in DOMAIN tasks :
       tasks[i].trial.kind = "spatial" => tasks[i].trial.accDen = TasksPerTrial
  /\ \A n \in 1..MaxTrials : stops[n] <= 1
C26_Witness ==
  /\ moduleId = "D" /\ dResp.n = TasksPerTrial /\ dAnswered
  /\ \E i \in DOMAIN tasks : tasks[i].trial.kind = "spatial"
  /\ stops[curTrial] = 1

\* C21: in Module C, once stopTrial has been entered for a trial (manual Stop
\* or timed end), no further stimulus of that trial is presented: a
\* presentNextStimulus call already scheduled by timer neither plays a tone
\* nor advances the stimulus index.
C21_NoStimulusAfterStop ==
  [][(/\ aud.module = "C" /\ aud.reducerCalls > 0
      /\ aud'.trialNo = aud.trialNo /\ aud'.reducerCalls >= aud.reducerCalls)
     => aud'.currentStimulusIndex = aud.currentStimulusIndex]_vars

\* C25: in Module F's auditory baseline the trial is not stopped before the
\* response window of the last stimulus presented has closed, so that a key
\* press within [min, max] after that stimulus is still recorded for it.
C25_StopAfterFinalWindow ==
  [][(/\ aud.module = "F" /\ aud.reducerCalls = 0 /\ aud'.reducerCalls = 1
      /\ aud'.currentStimulusIndex > 0)
     => aud'.now - aud'.currentStimulusStart > aud'.responseWindow.max]_vars


C22_OneResponsePerInterrupt ==
  mg # NoMg =>
    \A id \in mg.shown :
      LET n == Cardinality({i \in DOMAIN mg.interruptResponses :
                               mg.interruptResponses[i].interruptId = id})
      IN n <= 1 /\ (mg.ended => n = 1)

====
